---- MODULE Spec2Model ----
(***************************************************************************)
(* EPANET-MSX water-quality engine (EPyT-Flow copy): the toolkit           *)
(* lifecycle (msxtoolkit.c), the quality router (msxqual.c), the segment   *)
(* pool, the chemistry driver (msxchem.c), the expression interpreter      *)
(* (mathexpr.c) and the math-error flag (msxerr.c).                        *)
(*                                                                         *)
(* C doubles are modelled as exact rationals <<num, den>>; pointers to     *)
(* segments are indices into the pool arena, 0 being the null pointer.     *)
(***************************************************************************)
EXTENDS Integers, Sequences, FiniteSets, TLC

VARIABLES
    MSX,        \* the project: the global MSX struct, the statics of msxerr.c, the files
    env,        \* what the process runs on: the hydraulics file, the heap, the build
    call        \* the last toolkit call and what it returned

vars == <<MSX, env, call>>

-----------------------------------------------------------------------------
(* Bounds of the model *)

\* toolkit calls made on one process
MaxCalls == 6
\* and in the runs that call the getters and setters
MaxApiCalls == 4

-----------------------------------------------------------------------------
(* C double arithmetic: a finite value is an exact rational <<num, den>>    *)
(* with den > 0 in lowest terms; <<1, 0>> and <<-1, 0>> are the two        *)
(* infinities and <<0, 0>> is NaN.                                         *)

RECURSIVE Gcd(_, _)
Gcd(a, b) == IF b = 0 THEN a ELSE Gcd(b, a % b)

AbsI(x) == IF x < 0 THEN -x ELSE x
SgnI(x) == IF x < 0 THEN -1 ELSE IF x > 0 THEN 1 ELSE 0

Rat(n, d) ==
    IF d = 0 THEN <<SgnI(n), 0>>
    ELSE LET g == Gcd(AbsI(n), AbsI(d))
             sg == IF d < 0 THEN -1 ELSE 1
         IN  <<(sg * n) \div g, (sg * d) \div g>>

RInt(n) == <<n, 1>>
RZero == <<0, 1>>
RNaN == <<0, 0>>
RInf == <<1, 0>>
IsNaN(a) == a = RNaN
IsFinite(a) == a[2] # 0
RSgn(a) == SgnI(a[1])
RNeg(a) == <<-a[1], a[2]>>

RAdd(a, b) ==
    IF IsNaN(a) \/ IsNaN(b) THEN RNaN
    ELSE IF ~ IsFinite(a) THEN (IF ~ IsFinite(b) /\ b # a THEN RNaN ELSE a)
    ELSE IF ~ IsFinite(b) THEN b
    ELSE LET g == Gcd(a[2], b[2])
         IN  Rat(a[1] * (b[2] \div g) + b[1] * (a[2] \div g), (a[2] \div g) * b[2])

RSub(a, b) == RAdd(a, RNeg(b))

RMul(a, b) ==
    IF IsNaN(a) \/ IsNaN(b) THEN RNaN
    ELSE IF ~ IsFinite(a) \/ ~ IsFinite(b) THEN <<RSgn(a) * RSgn(b), 0>>
    ELSE LET g1 == Gcd(AbsI(a[1]), b[2])
             g2 == Gcd(AbsI(b[1]), a[2])
         IN  Rat((a[1] \div g1) * (b[1] \div g2), (a[2] \div g2) * (b[2] \div g1))

\* x / 0 is an infinity of the sign of x, 0 / 0 and inf / inf are NaN
RDiv(a, b) ==
    IF IsNaN(a) \/ IsNaN(b) THEN RNaN
    ELSE IF ~ IsFinite(b) THEN (IF IsFinite(a) THEN RZero ELSE RNaN)
    ELSE IF b[1] = 0 THEN <<RSgn(a), 0>>
    ELSE IF ~ IsFinite(a) THEN <<RSgn(a) * RSgn(b), 0>>
    ELSE RMul(a, Rat(b[2], b[1]))

\* comparisons with NaN are false
RLt(a, b) ==
    IF IsNaN(a) \/ IsNaN(b) THEN FALSE
    ELSE IF ~ IsFinite(a) \/ ~ IsFinite(b)
         THEN (IF IsFinite(a) THEN b = RInf
               ELSE IF IsFinite(b) THEN a = RNeg(RInf)
               ELSE a = RNeg(RInf) /\ b = RInf)
    ELSE a[1] * b[2] < b[1] * a[2]
RLe(a, b) == ~ IsNaN(a) /\ ~ IsNaN(b) /\ (a = b \/ RLt(a, b))
RAbs(a) == <<AbsI(a[1]), a[2]>>

\* the macros MAX(x,y) = (x >= y) ? x : y and MIN(x,y) = (x <= y) ? x : y
RMax(a, b) == IF RLe(b, a) THEN a ELSE b
RMin(a, b) == IF RLe(a, b) THEN a ELSE b

\* the array that holds the values of f
Array(f) == f @@ <<>>

\* F of the value v: v is computed once, before F is entered
Let(v, F(_)) == IF v = v THEN F(v) ELSE F(v)

MinI(x, y) == IF x <= y THEN x ELSE y
MaxI(x, y) == IF x >= y THEN x ELSE y

-----------------------------------------------------------------------------
(* Program constants *)

ERR_MEMORY == 501
ERR_READ_HYD_FILE == 505
ERR_NUM_PIPE_EXPR == 507
ERR_NUM_TANK_EXPR == 508
ERR_INTEGRATOR == 513
ERR_NEWTON == 514
ERR_INVALID_OBJECT_TYPE == 515
ERR_INVALID_OBJECT_INDEX == 516
ERR_INVALID_OBJECT_PARAMS == 518
ERR_MSX_NOT_OPENED == 519
ERR_MSX_OPENED == 520
ERR_ILLEGAL_MATH == 524
ERR_SORT_MEMORY == 101
ERR_SORT_CYCLE == 120

\* CALL(err, f): f is evaluated only while err <= 100
CALL_LIMIT == 100

NEGATIVE == -1
ZERO_FLOW == 0
POSITIVE == 1

\* enum ObjectTypes, ExpressionType, SolverType, CompilerType
LINK == 1
TANK == 2
SPECIES == 3
TERM == 4
PARAMETER == 5
\* the type of a constant coefficient
CONST == 6
\* enum SectionType
s_SPECIES == 1
s_COEFF == 2
s_TERM == 3
s_PIPE == 4
s_TANK == 5
\* input errors (msxinp.c), and the error code of a file in error
ERR_ITEMS == 402
ERR_KEYWORD == 403
ERR_NAME == 405
ERR_RESERVED_NAME == 406
ERR_DUP_NAME == 407
ERR_DUP_EXPR == 408
ERR_MATH_EXPR == 409
ERR_MSX_INPUT == 506
\* enum SpeciesType
BULK == 0
WALL == 1
NO_EXPR == 0
RATE == 1
FORMULA == 2
EQUIL == 3
EUL == 0
RK5 == 1
NO_COMPILER == 0
GC == 2

MAXSEGMENTS == 5000
MIN_MAXSEGMENTS == 50
INIT_SEGS == 100
DEFAULT_QSTEP == 300000
MSEC == 1000

\* LperFT3 = 28.317, DefAtol = 0.01
LperFT3 == Rat(28317, 1000)
DefAtol == Rat(1, 100)

NULL == 0

\* object and source type codes of the toolkit (epanetmsx.h)
MSX_NODE == 0
MSX_LINK == 1
MSX_SPECIES == 3
MSX_PATTERN == 7
MSX_NOSOURCE == -1
MSX_FLOWPACED == 3
\* enum SourceType
CONCEN == 0
MASS == 1
SETPOINT == 2
FLOWPACED == 3

-----------------------------------------------------------------------------
(* The network of the EPANET project: three junctions joined in a loop by  *)
(* three pipes.  Pipe k runs from LinkN1[k] to LinkN2[k]; positive flow    *)
(* goes that way.                                                          *)

LinkN1 == <<1, 2, 1>>
LinkN2 == <<2, 3, 3>>
NLinks == Len(LinkN1)
NNodes == Len(LinkN2)
Links == 1..NLinks
Nodes == 1..NNodes

\* LINKVOL(k) = 0.785398 * len * diam^2, in ft3: the pipes' geometry gives 100 ft3 each
LINKVOL(k) == <<RInt(100), RInt(100), RInt(100)>>[k]

\* initial quality of every bulk species at the nodes (Node[i].c0); no
\* initial link quality is given (Link[k].c0 = MISSING)
NodeC0 == env.project.c0

\* Q_STAGNANT = 0.005 / GPMperCFS, in cfs
Q_STAGNANT == Rat(5, 448831)

\* buildadjlists: each link is prepended to the lists of its two end nodes
RECURSIVE buildadjlists(_, _)
buildadjlists(k, adj) ==
    IF k > NLinks THEN adj
    ELSE LET i == LinkN1[k]
             j == LinkN2[k]
             a1 == [adj EXCEPT ![i] = <<[node |-> j, link |-> k]>> \o @]
             a2 == [a1 EXCEPT ![j] = <<[node |-> i, link |-> k]>> \o @]
         IN  buildadjlists(k + 1, a2)

Adjlist == buildadjlists(1, [n \in Nodes |-> <<>>])


-----------------------------------------------------------------------------
(* The segment pool (msxqual.c).  s is the project state; s.Seg is the     *)
(* pool's memory, s.Seg[0] what lies at the null address.  A store or load *)
(* through a null segment pointer is undefined behaviour: it sets s.fault, *)
(* and either the process traps there (env.nullTraps, s.crashed) or the    *)
(* access goes to the memory at address 0 and execution continues.         *)

NullDeref(s) ==
    [s EXCEPT !.fault = TRUE, !.crashed = env.nullTraps]

\* a pointer is dereferenced: p = NULL is the undefined case
Deref(s, p) == IF p = NULL THEN NullDeref(s) ELSE s

\* Alloc() from the quality pool: the next slot of the pool, NULL when the heap is used up
MSXqual_getFreeSeg(s, v, c) ==
    IF s.crashed THEN [st |-> s, seg |-> NULL]
    ELSE IF s.FreeSeg # NULL /\ s.FreeSegStale /\ env.nullTraps
    THEN [st |-> NullDeref(s), seg |-> NULL]
    ELSE IF s.FreeSeg # NULL
    THEN LET seg == s.FreeSeg
         IN  [st |-> [s EXCEPT !.FreeSeg = s.Seg[seg].prev,
                               !.Seg[seg].v = v,
                               !.Seg[seg].c = c,
                               !.fault = @ \/ s.FreeSegStale],
              seg |-> seg]
    ELSE IF s.PoolTop >= env.heapSegs
    THEN [st |-> [s EXCEPT !.OutOfMemory = TRUE], seg |-> NULL]
    ELSE LET seg == s.PoolTop + 1
             mem == (seg :> IF seg \in DOMAIN s.Seg
                            THEN [s.Seg[seg] EXCEPT !.v = v, !.c = c]
                            ELSE [v |-> v, c |-> c, prev |-> NULL, next |-> NULL])
                    @@ s.Seg
         IN  [st |-> [s EXCEPT !.PoolTop = seg, !.Seg = mem], seg |-> seg]

\* adds a segment to the upstream end of link (or tank) k
MSXqual_addSeg(s, k, seg) ==
    IF s.crashed THEN s
    ELSE IF seg = NULL /\ env.nullTraps THEN NullDeref(s)
    ELSE Let(Deref(s, seg), LAMBDA s0 :
             [s0 EXCEPT !.Seg[seg].prev = NULL,
                        !.Seg[seg].next = NULL,
                        !.FirstSeg[k] = IF @ = NULL THEN seg ELSE @,
                        !.Seg = IF s0.LastSeg[k] # NULL
                                THEN [@ EXCEPT ![s0.LastSeg[k]].prev = seg,
                                               ![seg].next = s0.LastSeg[k]]
                                ELSE @,
                        !.LastSeg[k] = seg,
                        !.nsegs[k] = IF k <= NLinks THEN @ + 1 ELSE @])

\* puts a segment back on the free list
MSXqual_removeSeg(s, seg) ==
    IF s.crashed \/ seg = NULL THEN s
    ELSE [s EXCEPT !.Seg[seg].prev = s.FreeSeg,
                   !.Seg[seg].next = NULL,
                   !.FreeSeg = seg]

\* the segments of list k from FirstSeg along prev, at most n of them
RECURSIVE SegsFrom(_, _, _, _)
SegsFrom(s, seg, n, list) ==
    IF seg = NULL \/ n = Len(list) THEN list
    ELSE SegsFrom(s, s.Seg[seg].prev, n, Append(list, seg))

SegList(s, k) == SegsFrom(s, s.FirstSeg[k], Cardinality(DOMAIN s.Seg), <<>>)

\* a loop over segs[lo..hi] that turns the prev pointers only
RECURSIVE reverseLoopPrevOnly(_, _, _, _)
reverseLoopPrevOnly(s, segs, lo, hi) ==
    IF lo > hi \/ s.crashed THEN s
    ELSE IF lo = hi
    THEN [s EXCEPT !.Seg[segs[lo]].prev = IF lo = 1 THEN NULL ELSE segs[lo - 1]]
    ELSE LET mid == (lo + hi) \div 2
         IN  reverseLoopPrevOnly(reverseLoopPrevOnly(s, segs, lo, mid), segs, mid + 1, hi)

\* the loop of MSXqual_reversesegs over segs[lo..hi], the link's segments from
\* FirstSeg along prev: each segment's prev and next are exchanged
\* (the range of passes is halved, first half first)
RECURSIVE reverseLoop(_, _, _, _)
reverseLoop(s, segs, lo, hi) ==
    IF lo > hi \/ s.crashed THEN s
    ELSE IF lo = hi
    THEN [s EXCEPT !.Seg[segs[lo]].prev = IF lo = 1 THEN NULL ELSE segs[lo - 1],
                   !.Seg[segs[lo]].next = IF lo = Len(segs) THEN NULL ELSE segs[lo + 1]]
    ELSE LET mid == (lo + hi) \div 2
         IN  reverseLoop(reverseLoop(s, segs, lo, mid), segs, mid + 1, hi)

\* re-orients a link's segments when flow reverses
MSXqual_reversesegs(s, k) ==
    LET seg == s.FirstSeg[k]
        s1 == [s EXCEPT !.FirstSeg[k] = s.LastSeg[k], !.LastSeg[k] = seg,
                        !.obs.head[k] = IF @ = 0 THEN 0
                                        ELSE IF @ = LinkN1[k] THEN LinkN2[k]
                                        ELSE LinkN1[k]]
        segs == SegList(s, k)
    IN  reverseLoop(s1, segs, 1, Len(segs))

\* 1 when all concentrations are within the species' tolerance of each other
MSXqual_isSame(c1, c2) ==
    \A m \in DOMAIN c1 : ~ RLe(DefAtol, RAbs(RSub(c1[m], c2[m])))

-----------------------------------------------------------------------------
(* Topological sort of the nodes (msxqual.c) *)

\* the first entry of adjacency list adj, from position a on, whose node still has inflow links
RECURSIVE firstWithInflow(_, _, _)
firstWithInflow(adj, a, indegree) ==
    IF a > Len(adj) THEN 0
    ELSE IF indegree[adj[a].node] > 0 THEN adj[a].node
    ELSE firstWithInflow(adj, a + 1, indegree)

\* the first loop of selectnonstacknode: sorted nodes in last in - first out order
RECURSIVE selectFromSorted(_, _, _)
selectFromSorted(i, indegree, SortedNodes) ==
    IF i <= 0 THEN 0
    ELSE LET n == firstWithInflow(Adjlist[SortedNodes[i]], 1, indegree)
         IN  IF n # 0 THEN n ELSE selectFromSorted(i - 1, indegree, SortedNodes)

\* selects a next node for sorting when a cycle exists
selectnonstacknode(numsorted, indegree, SortedNodes) ==
    LET n == selectFromSorted(numsorted, indegree, SortedNodes)
        rest == {i \in Nodes : indegree[i] > 0}
    IN  IF n # 0 THEN n
        ELSE IF rest # {} THEN CHOOSE i \in rest : \A j \in rest : i <= j
        ELSE 0

\* the downstream node of link k (n2, or n1 when the flow is negative)
downstreamOf(FlowDir, k) == IF FlowDir[k] < 0 THEN LinkN1[k] ELSE LinkN2[k]
upstreamOf(FlowDir, k) == IF FlowDir[k] < 0 THEN LinkN2[k] ELSE LinkN1[k]

\* a count that sees no inflow link at all
countInflowNone(k, FlowDir, indegree) == indegree

\* the links with non-negligible inflow to each node are counted
RECURSIVE countInflow(_, _, _)
countInflow(k, FlowDir, indegree) ==
    IF k > NLinks THEN indegree
    ELSE IF FlowDir[k] = POSITIVE
         THEN countInflow(k + 1, FlowDir, [indegree EXCEPT ![LinkN2[k]] = @ + 1])
    ELSE IF FlowDir[k] = NEGATIVE
         THEN countInflow(k + 1, FlowDir, [indegree EXCEPT ![LinkN1[k]] = @ + 1])
    ELSE countInflow(k + 1, FlowDir, indegree)

\* nodes with no inflow are placed on the stack, in index order
RECURSIVE stackNoInflow(_, _, _)
stackNoInflow(i, indegree, stack) ==
    IF i > NNodes THEN stack
    ELSE stackNoInflow(i + 1, indegree,
                       IF indegree[i] = 0 THEN Append(stack, i) ELSE stack)

\* for each outflow link of node i the in-degree of its downstream node is reduced
RECURSIVE reduceDegree(_, _, _, _)
reduceDegree(i, a, FlowDir, w) ==
    IF a > Len(Adjlist[i]) THEN w
    ELSE LET k == Adjlist[i][a].link
             n == downstreamOf(FlowDir, k)
         IN  IF FlowDir[k] = 0 THEN reduceDegree(i, a + 1, FlowDir, w)
             ELSE IF n # i /\ w.indegree[n] > 0
             THEN LET d == w.indegree[n] - 1
                      w1 == [w EXCEPT !.indegree[n] = d,
                                      !.stack = IF d = 0 THEN Append(@, n) ELSE @]
                  IN  reduceDegree(i, a + 1, FlowDir, w1)
             ELSE reduceDegree(i, a + 1, FlowDir, w)

\* a sorter that gives up when a cycle has emptied the stack
NoFallbackNode(w) == 0

\* the node taken from the stack when a cycle has emptied it
FallbackNode(w) == selectnonstacknode(w.numsorted, w.indegree, w.SortedNodes)

\* the while loop of sortNodes; w holds indegree, stack, numsorted and SortedNodes
RECURSIVE sortLoop(_, _)
sortLoop(FlowDir, w) ==
    IF w.numsorted >= NNodes THEN w
    ELSE Let(IF w.stack = <<>> THEN FallbackNode(w) ELSE 0, LAMBDA j :
         IF w.stack = <<>> /\ j = 0 THEN w
         ELSE Let(IF w.stack = <<>>
                  THEN [w EXCEPT !.indegree[j] = 0, !.stack = <<j>>]
                  ELSE w,
                  LAMBDA w1 :
                  sortLoop(FlowDir,
                           reduceDegree(w1.stack[Len(w1.stack)], 1, FlowDir,
                                        [w1 EXCEPT !.stack = SubSeq(@, 1, Len(@) - 1),
                                                   !.numsorted = @ + 1,
                                                   !.SortedNodes[w1.numsorted + 1] =
                                                       w1.stack[Len(w1.stack)]]))))

\* calloc of the sorter's two work arrays: fails when the heap is exhausted
SortArraysAllocated(s) == ~ s.OutOfMemory

sortNodes(s) ==
    IF s.crashed THEN s
    ELSE Let(countInflow(1, s.FlowDir, [n \in Nodes |-> 0]), LAMBDA indegree :
         Let([indegree |-> indegree,
              stack |-> stackNoInflow(1, indegree, <<>>),
              numsorted |-> 0,
              SortedNodes |-> s.SortedNodes],
             LAMBDA w0 :
         Let(IF SortArraysAllocated(s) THEN sortLoop(s.FlowDir, w0) ELSE w0, LAMBDA w :
             [s EXCEPT !.SortedNodes = w.SortedNodes,
                       !.obs.sortRuns = @ + 1,
                       !.obs.sortErr = IF w.numsorted < NNodes THEN ERR_SORT_CYCLE
                                       ELSE IF ~ SortArraysAllocated(s)
                                       THEN ERR_SORT_MEMORY ELSE 0])))

-----------------------------------------------------------------------------
(* The math-error flag (msxerr.c).  The project read from the MSX input    *)
(* file is env.project: its species, terms and constants with their        *)
(* expressions in postfix form, as the parser leaves them.                 *)

Species == env.project.Species
Term == env.project.Term
Const == env.project.Const
NumSpecies == Len(Species)
SpeciesIx == 1..NumSpecies

elementTxt == <<"", "pipe", "tank">>
exprTypeTxt == <<"", "rate", "formula", "equilibrium">>
NoMsg == [text |-> ""]

MSXerr_clearMathError(s) ==
    [s EXCEPT !.mathError = 0, !.mathErrorMsg = NoMsg, !.mathErrorBy = 0,
              !.obs.firstMsg = NoMsg]

MSXerr_mathError(s) == s.mathError

\* the message sprintf builds for species or term index
MathErrorMsg(index, element, exprType) ==
    IF exprType = TERM
    THEN [text |-> "Ilegal math operation occurred for term", id |-> Term[index].id]
    ELSE [text |-> "Ilegal math operation occurred in expression for species",
          element |-> elementTxt[element + 1],
          expr |-> exprTypeTxt[exprType + 1],
          id |-> Species[index].id]

\* the loop of MSXchem_react over the links is an OpenMP parallel loop: built
\* without OpenMP the links are done in turn, the last link's error code is
\* the one kept and the math-error flag is never read stale; built with it,
\* the store of any link's thread may be the last one
Sequential == [lastWriter |-> NLinks, staleFlag |-> FALSE]
Threaded(k) == [lastWriter |-> k, staleFlag |-> TRUE]

\* mathError and mathErrorMsg are statics shared by the threads of the
\* parallel loop of MSXchem_react, read and written without synchronisation:
\* the thread of link s.ompLink may read the flag as still clear after the
\* thread of another link has set it (a data race)
StaleFlag(s) ==
    /\ s.omp.staleFlag
    /\ s.ompLink # 0
    /\ s.mathErrorBy \notin {0, s.ompLink}

\* checks if a number is valid: returns the state and the value delivered
MSXerr_validate(s, x, index, element, exprType) ==
    IF ~ IsNaN(x) THEN [st |-> s, val |-> x]
    ELSE IF s.mathError # 0 /\ ~ StaleFlag(s)
    THEN [st |-> [s EXCEPT !.obs.invalid = MinI(@ + 1, 2)], val |-> RZero]
    ELSE [st |-> [s EXCEPT !.mathErrorMsg = MathErrorMsg(index, element, exprType),
                           !.mathError = 1,
                           !.mathErrorBy = s.ompLink,
                           !.obs.invalid = MinI(@ + 1, 2),
                           !.obs.firstMsg = IF s.mathError = 0
                                            THEN MathErrorMsg(index, element, exprType)
                                            ELSE @],
          val |-> RZero]

-----------------------------------------------------------------------------
(* The expression interpreter (mathexpr.c).  An expression is a sequence   *)
(* of nodes [opcode, fvalue, ivar]; st is exprStack[0..stackindex],        *)
(* preceded by the cells of memory just below the array that an index      *)
(* below 0 reaches (none where no environment names them).                 *)

Below == IF "below" \in DOMAIN env THEN env.below ELSE <<>>
stackindex(st) == Len(st) - Len(Below) - 1

\* an access of exprStack[i] with i < 0 is outside the array
OutOfStack(s, i) == IF i < 0 THEN [s EXCEPT !.fault = TRUE] ELSE s

Top(st) == st[Len(st)]
Second(st) == st[Len(st) - 1]
\* stackindex--
Pop(st) == SubSeq(st, 1, Len(st) - 1)
\* stackindex--, then exprStack[stackindex] = r
PopPut(st, r) == SubSeq(st, 1, Len(st) - 2) \o <<r>>
Put(st, r) == SubSeq(st, 1, Len(st) - 1) \o <<r>>

RECURSIVE RPowN(_, _)
RPowN(b, n) == IF n = 0 THEN RInt(1) ELSE RMul(b, RPowN(b, n - 1))

\* pow(b, e) of a positive b and a whole exponent e
RPow(b, e) ==
    CASE e[2] = 1 /\ e[1] >= 0 -> RPowN(b, e[1])
      [] e[2] = 1 /\ e[1] < 0 -> RDiv(RInt(1), RPowN(b, -e[1]))

\* opcodes 14 (abs), 15 (sgn) and 28 (step) of the one-operand functions
Func1(op, r1) ==
    CASE op = 9 -> RNeg(r1)
      [] op = 14 -> RAbs(r1)
      [] op = 15 -> IF RLt(r1, RZero) THEN RInt(-1)
                    ELSE IF RLt(RZero, r1) THEN RInt(1) ELSE RZero
      [] op = 28 -> IF RLe(r1, RZero) THEN RZero ELSE RInt(1)

Func2(op, r2, r1) ==
    CASE op = 3 -> RAdd(r2, r1)
      [] op = 4 -> RSub(r2, r1)
      [] op = 5 -> RMul(r2, r1)
      [] op = 6 -> RDiv(r2, r1)

RECURSIVE mathexpr_run(_, _, _, _, _, _)
RECURSIVE getVariableValue(_, _, _, _)

\* mathexpr_eval(expr, getVariableValue) with ChemC1 = c; zone tells which
\* getVariableValue is passed: LINK for getPipeVariableValue, TANK for
\* getTankVariableValue
mathexpr_eval(s, expr, c, zone) ==
    Let(mathexpr_run(s, expr, 1, Below \o <<RZero>>, c, zone), LAMBDA r :
        Let(IF stackindex(r.stack) >= 0 THEN Top(r.stack) ELSE RZero, LAMBDA r1 :
            [st |-> IF IsNaN(r1) THEN [r.st EXCEPT !.obs.evalNaN = TRUE] ELSE r.st,
             val |-> IF IsNaN(r1) THEN RZero ELSE r1,
             nan |-> IsNaN(r1)]))

\* the while loop of mathexpr_eval from node pos on: the two-operand cases
\* 3..6 read exprStack[stackindex] and read and write exprStack[stackindex - 1]
\* without a test, case 31 leaves when the index fell below 0, the
\* one-operand cases read and write exprStack[stackindex], the cases 7 and 8
\* write exprStack[stackindex + 1]; any other opcode is passed over
mathexpr_run(s, expr, pos, st, c, zone) ==
    IF pos > Len(expr) THEN [st |-> s, stack |-> st]
    ELSE IF expr[pos].opcode \in 3..6
    THEN mathexpr_run(OutOfStack(s, stackindex(st) - 1), expr, pos + 1,
                      PopPut(st, Func2(expr[pos].opcode, Second(st), Top(st))), c, zone)
    ELSE IF expr[pos].opcode = 7
    THEN mathexpr_run(OutOfStack(s, stackindex(st) + 1), expr, pos + 1,
                      Append(st, expr[pos].fvalue), c, zone)
    ELSE IF expr[pos].opcode = 8
    THEN Let(getVariableValue(s, expr[pos].ivar, c, zone), LAMBDA r :
             mathexpr_run(OutOfStack(r.st, stackindex(st) + 1), expr, pos + 1,
                          Append(st, r.val), c, zone))
    ELSE IF expr[pos].opcode = 31
    THEN IF stackindex(st) - 1 < 0
         THEN mathexpr_run(OutOfStack(s, stackindex(st)), expr, pos + 1, Pop(st), c, zone)
         ELSE mathexpr_run(s, expr, pos + 1,
                           PopPut(st, IF RLe(Second(st), RZero) THEN RZero
                                      ELSE RPow(Second(st), Top(st))), c, zone)
    ELSE IF expr[pos].opcode \in 9..28
    THEN mathexpr_run(OutOfStack(s, stackindex(st)), expr, pos + 1,
                      Put(st, Func1(expr[pos].opcode, Top(st))), c, zone)
    ELSE mathexpr_run(s, expr, pos + 1, st, c, zone)

\* the expression of species i in a zone, and its kind
SpeciesExprType(i, zone) ==
    IF zone = LINK THEN Species[i].pipeExprType ELSE Species[i].tankExprType
SpeciesExpr(i, zone) ==
    IF zone = LINK THEN Species[i].pipeExpr ELSE Species[i].tankExpr

\* a validation of an interpreted result that was NaN leaves the flag raised, or not
Validated(r, v) ==
    IF r.nan /\ v.st.mathError = 0
    THEN [v EXCEPT !.st.obs.nanUnflagged = TRUE]
    ELSE v

\* getPipeVariableValue / getTankVariableValue: species, then terms, then constants
getVariableValue(s, i, c, zone) ==
    IF i <= NumSpecies
    THEN IF SpeciesExprType(i, zone) = FORMULA
         THEN Let(mathexpr_eval(s, SpeciesExpr(i, zone), c, zone), LAMBDA r :
                  Validated(r, MSXerr_validate(r.st, r.val, i, zone, FORMULA)))
         ELSE [st |-> s, val |-> c[i]]
    ELSE IF i <= NumSpecies + Len(Term)
    THEN Let(mathexpr_eval(s, Term[i - NumSpecies].expr, c, zone), LAMBDA r :
             Validated(r, MSXerr_validate(r.st, r.val, i - NumSpecies, 0, TERM)))
    ELSE IF i <= NumSpecies + Len(Term) + Len(Const)
    THEN [st |-> s, val |-> Const[i - NumSpecies - Len(Term)]]
    ELSE [st |-> s, val |-> RZero]

-----------------------------------------------------------------------------
(* Compiled reaction functions (msxcompiler.c): each expression is written *)
(* out as C source and evaluated natively, terms by a generated function.  *)

RECURSIVE nativeRun(_, _, _, _)
\* the value of variable i in compiled code: c[i], a call of the term's
\* function, or the constant
nativeValue(i, c) ==
    IF i <= NumSpecies THEN c[i]
    ELSE IF i <= NumSpecies + Len(Term)
    THEN nativeRun(Term[i - NumSpecies].expr, 1, <<RZero>>, c)
    ELSE IF i <= NumSpecies + Len(Term) + Len(Const)
    THEN Const[i - NumSpecies - Len(Term)]
    ELSE RZero

nativeRun(expr, pos, st, c) ==
    IF pos > Len(expr) THEN Top(st)
    ELSE IF expr[pos].opcode \in 3..6
    THEN nativeRun(expr, pos + 1,
                   PopPut(st, Func2(expr[pos].opcode, Second(st), Top(st))), c)
    ELSE IF expr[pos].opcode = 7
    THEN nativeRun(expr, pos + 1, Append(st, expr[pos].fvalue), c)
    ELSE IF expr[pos].opcode = 8
    THEN nativeRun(expr, pos + 1, Append(st, nativeValue(expr[pos].ivar, c)), c)
    ELSE nativeRun(expr, pos + 1, Put(st, Func1(expr[pos].opcode, Top(st))), c)

\* MSXgetPipeRates / MSXgetTankRates: F[m] for every rate species, from c
MSXgetRates(c, zone) ==
    Array([m \in SpeciesIx |->
        IF SpeciesExprType(m, zone) = RATE
        THEN nativeRun(SpeciesExpr(m, zone), 1, <<RZero>>, c)
        ELSE RZero])

\* MSXgetPipeFormulas / MSXgetTankFormulas: c[m] = formula, in species order
RECURSIVE MSXgetFormulas(_, _, _)
MSXgetFormulas(m, c, zone) ==
    IF m > NumSpecies THEN c
    ELSE IF SpeciesExprType(m, zone) = FORMULA
    THEN MSXgetFormulas(m + 1,
             [c EXCEPT ![m] = nativeRun(SpeciesExpr(m, zone), 1, <<RZero>>, c)], zone)
    ELSE MSXgetFormulas(m + 1, c, zone)

-----------------------------------------------------------------------------
(* The chemistry of one segment (msxchem.c) *)

\* the loop over rate species of getPipeDcDt / getTankDcDt from species m on:
\* r.deriv[m] is the validated rate of species m
RECURSIVE getDcDt(_, _, _, _, _)
getDcDt(s, m, c, zone, deriv) ==
    IF m > NumSpecies THEN [st |-> s, deriv |-> deriv]
    ELSE IF SpeciesExprType(m, zone) # RATE THEN getDcDt(s, m + 1, c, zone, deriv)
    ELSE Let(IF env.project.Compiler # NO_COMPILER
             THEN MSXerr_validate(s, MSXgetRates(c, zone)[m], m, zone, RATE)
             ELSE Let(mathexpr_eval(s, SpeciesExpr(m, zone), c, zone), LAMBDA r :
                      Validated(r, MSXerr_validate(r.st, r.val, m, zone, RATE))),
             LAMBDA v : getDcDt(v.st, m + 1, c, zone, [deriv EXCEPT ![m] = v.val]))

\* evalPipeFormulas / evalTankFormulas on the concentrations c, from species m on
RECURSIVE evalFormulasLoop(_, _, _, _, _)
evalFormulasLoop(s, m, c, c1, zone) ==
    IF m > NumSpecies THEN [st |-> s, c |-> c]
    ELSE IF SpeciesExprType(m, zone) # FORMULA THEN evalFormulasLoop(s, m + 1, c, c1, zone)
    ELSE Let(IF env.project.Compiler # NO_COMPILER
             THEN MSXerr_validate(s, c1[m], m, zone, FORMULA)
             ELSE Let(mathexpr_eval(s, SpeciesExpr(m, zone), c1, zone), LAMBDA r :
                      Validated(r, MSXerr_validate(r.st, r.val, m, zone, FORMULA))),
             LAMBDA v : evalFormulasLoop(v.st, m + 1, [c EXCEPT ![m] = v.val], c1, zone))

\* ChemC1 is a copy of c taken on entry; the compiled formulas overwrite it
evalFormulas(s, c, zone) ==
    evalFormulasLoop(s, 1, c,
                     IF env.project.Compiler # NO_COMPILER
                     THEN MSXgetFormulas(1, c, zone) ELSE c,
                     zone)

HasEquil(zone) == \E m \in SpeciesIx : SpeciesExprType(m, zone) = EQUIL

\* newton_solve on the equilibrium species: it fails (a negative code), or it
\* converges to the root of each equilibrium expression, which the project
\* gives in closed form as Species[m].root
newton_solve(c, zone) ==
    IF env.project.newtonFails THEN [code |-> -1, c |-> c]
    ELSE [code |-> 1,
          c |-> Array([m \in SpeciesIx |->
                    IF SpeciesExprType(m, zone) = EQUIL
                    THEN nativeRun(Species[m].root, 1, <<RZero>>, c)
                    ELSE c[m]])]

\* evalPipeEquil / evalTankEquil
evalEquil(c, zone) ==
    Let(newton_solve(c, zone), LAMBDA r :
        IF r.code < 0 THEN [errcode |-> ERR_NEWTON, c |-> c]
        ELSE [errcode |-> 0, c |-> r.c])

\* computes equilibrium concentrations for a set of chemical species
MSXchem_equil(s, zone, c) ==
    Let(IF HasEquil(zone) THEN evalEquil(c, zone) ELSE [errcode |-> 0, c |-> c], LAMBDA e :
        Let(evalFormulas(s, e.c, zone), LAMBDA f :
            [st |-> f.st, c |-> f.c, errcode |-> e.errcode]))

\* rk5_integrate over tstep from c: the integrator fails on the links the
\* project's equations defeat it on (a negative code, y as it stood), or it
\* returns the integrated rate species, here by one step of the full size
rk5_integrate(s, k, c, tstep) ==
    Let(getDcDt(s, 1, c, LINK, [m \in SpeciesIx |-> RZero]), LAMBDA d :
        IF k \in env.project.integFails
        THEN [st |-> d.st, y |-> c, ierr |-> -1]
        ELSE [st |-> d.st,
              y |-> Array([m \in SpeciesIx |-> RAdd(c[m], RMul(d.deriv[m], tstep))]),
              ierr |-> 1])

\* what is seen of one segment's update: a rate species that was clamped, the
\* math-error flag the clamping left, the kinds of species left negative
ObserveSeg(s, raw, c) ==
    Let(\E m \in SpeciesIx : SpeciesExprType(m, LINK) = RATE /\ RLt(raw[m], RZero),
        LAMBDA clamped :
        [s EXCEPT !.obs.clamped = @ \/ clamped,
                  !.obs.clampUnflagged = @ \/ (clamped /\ s.mathError = 0),
                  !.obs.negKinds = @ \cup {SpeciesExprType(m, LINK) :
                                              m \in {i \in SpeciesIx : RLt(c[i], RZero)}}])

\* one pass of the while loop of evalPipeReactions, on segment seg
evalPipeSeg(s, k, seg, dt) ==
    Let(IF ~ RLt(RZero, dt) THEN [st |-> s, y |-> s.Seg[seg].c, ierr |-> 0]
        ELSE IF env.project.Solver = EUL
        THEN Let(getDcDt(s, 1, s.Seg[seg].c, LINK, [m \in SpeciesIx |-> RZero]),
                 LAMBDA d :
                 [st |-> d.st,
                  y |-> Array([m \in SpeciesIx |->
                                 RAdd(s.Seg[seg].c[m],
                                      RMul(d.deriv[m], RDiv(dt, env.project.rateUcf)))]),
                  ierr |-> 0])
        ELSE rk5_integrate(s, k, s.Seg[seg].c, RDiv(dt, env.project.rateUcf)),
        LAMBDA r :
        Let(Array([m \in SpeciesIx |->
                     IF RLt(RZero, dt) /\ SpeciesExprType(m, LINK) = RATE
                     THEN RMax(r.y[m], RZero) ELSE s.Seg[seg].c[m]]),
            LAMBDA c1 :
            IF r.ierr < 0
            THEN [st |-> [r.st EXCEPT !.Seg[seg].c = c1], errcode |-> ERR_INTEGRATOR]
            ELSE Let(MSXchem_equil(r.st, LINK, c1), LAMBDA e :
                     [st |-> ObserveSeg([e.st EXCEPT !.Seg[seg].c = e.c], r.y, e.c),
                      errcode |-> e.errcode])))

\* the while loop of evalPipeReactions over segs[lo..hi], the link's segments
\* from FirstSeg along prev; it is left at the first segment that fails
\* (the range of passes is halved, first half first)
RECURSIVE evalPipeReactionsLoop(_, _, _, _, _, _)
evalPipeReactionsLoop(r, k, segs, lo, hi, dt) ==
    IF lo > hi \/ r.errcode # 0 THEN r
    ELSE IF lo = hi THEN evalPipeSeg(r.st, k, segs[lo], dt)
    ELSE LET mid == (lo + hi) \div 2
         IN  evalPipeReactionsLoop(evalPipeReactionsLoop(r, k, segs, lo, mid, dt),
                                   k, segs, mid + 1, hi, dt)

\* updates species concentrations in each segment of pipe k over time step dt
evalPipeReactions(s, k, dt) ==
    Let(SegList(s, k), LAMBDA segs :
        evalPipeReactionsLoop([st |-> s, errcode |-> 0], k, segs, 1, Len(segs), dt))

\* the loop over links of MSXchem_react: errcode is assigned by every pipe
RECURSIVE reactLinks(_, _, _, _)
reactLinks(s, k, dt, errcode) ==
    IF k > NLinks THEN [st |-> s, errcode |-> errcode]
    ELSE IF LINKVOL(k) = RZero THEN reactLinks(s, k + 1, dt, errcode)
    ELSE Let(evalPipeReactions([s EXCEPT !.ompLink = k], k, dt), LAMBDA r :
             reactLinks([r.st EXCEPT !.obs.pipeErrs =
                                         IF r.errcode # 0 THEN @ \cup {k} ELSE @],
                        k + 1, dt,
                        IF k = s.omp.lastWriter THEN r.errcode ELSE errcode))

\* computes reactions in all pipes and tanks, the parallel loop over the
\* links running as omp says
MSXchem_reactAs(s, dt, omp) ==
    Let(reactLinks([s EXCEPT !.omp = omp], 1, dt, 0), LAMBDA r :
        [st |-> [r.st EXCEPT !.ompLink = 0,
                             !.omp = s.omp,
                             !.obs.reacts = MinI(@ + 1, 2),
                             !.obs.reactErr = r.errcode],
         errcode |-> r.errcode])

\* what MSXchem_react leaves: the concentrations of the segments, the error
\* code, the math error flag and its message
ReactOutcome(r) ==
    [c |-> [i \in DOMAIN r.st.Seg |-> r.st.Seg[i].c],
     errcode |-> r.errcode,
     mathError |-> r.st.mathError,
     mathErrorMsg |-> r.st.mathErrorMsg]

\* computes reactions in all pipes and tanks; seen with it is what the loop
\* leaves when one thread takes the links in index order
MSXchem_react(s, dt) ==
    Let(MSXchem_reactAs(s, dt, env.race), LAMBDA r :
    Let(ReactOutcome(MSXchem_reactAs(s, dt, Sequential)), LAMBDA seq :
        [r EXCEPT !.st.obs.reactions =
                      @ \cup {[got |-> ReactOutcome(r), seq |-> seq]}]))

-----------------------------------------------------------------------------
(* The quality router (msxqual.c) *)

ZeroC == [m \in SpeciesIx |-> RZero]
C0(n) == [m \in SpeciesIx |-> NodeC0[n]]

\* the direction a flow q is taken to have
DirOf(q) ==
    IF RLt(RAbs(q), Q_STAGNANT) THEN ZERO_FLOW
    ELSE IF RLt(RZero, q) THEN POSITIVE ELSE NEGATIVE

\* the loop of initSegs that fills link k with segments lo..hi of its ninitsegs
\* segments of quality c (the range of iterations is halved, first half first)
RECURSIVE fillLink(_, _, _, _, _, _)
fillLink(s, k, lo, hi, v, c) ==
    IF lo > hi \/ s.crashed THEN s
    ELSE IF lo = hi
    THEN Let(MSXqual_getFreeSeg(s, v, c), LAMBDA r : MSXqual_addSeg(r.st, k, r.seg))
    ELSE fillLink(fillLink(s, k, lo, (lo + hi) \div 2, v, c),
                  k, (lo + hi) \div 2 + 1, hi, v, c)

\* initializes water quality in the segments of links k, k+1, ...
RECURSIVE initSegsFrom(_, _)
initSegsFrom(s, k) ==
    IF k > NLinks \/ s.crashed THEN s
    ELSE Let(MSXchem_equil([s EXCEPT !.FlowDir[k] = DirOf(s.Q[k]),
                                     !.LastSeg[k] = NULL,
                                     !.FirstSeg[k] = NULL,
                                     !.NewSeg[k] = NULL,
                                     !.obs.head[k] = 0],
                           LINK, C0(LinkN2[k])),
             LAMBDA e :
             initSegsFrom(IF RLt(RZero, LINKVOL(k))
                          THEN fillLink(e.st, k, 1, MinI(INIT_SEGS, s.MaxSegments),
                                        RDiv(LINKVOL(k),
                                             RInt(MinI(INIT_SEGS, s.MaxSegments))),
                                        e.c)
                          ELSE e.st,
                          k + 1))

initSegs(s) == [initSegsFrom(s, 1) EXCEPT !.obs.initSegs = TRUE]

\* flowdirchanged reporting a change only where the flow has reversed
RECURSIVE flowdirchangedReversed(_, _, _)
flowdirchangedReversed(s, k, flowchanged) ==
    IF k > NLinks THEN [st |-> s, flowchanged |-> flowchanged]
    ELSE Let(DirOf(s.Q[k]), LAMBDA newdir :
             flowdirchangedReversed([(IF newdir * s.FlowDir[k] < 0
                                      THEN MSXqual_reversesegs(s, k) ELSE s)
                                        EXCEPT !.FlowDir[k] = newdir],
                                    k + 1,
                                    IF newdir * s.FlowDir[k] < 0 THEN 1 ELSE flowchanged))

\* re-orients pipe segments (if flow reverses), from link k on
RECURSIVE flowdirchangedFrom(_, _, _)
flowdirchangedFrom(s, k, flowchanged) ==
    IF k > NLinks THEN [st |-> s, flowchanged |-> flowchanged]
    ELSE Let(DirOf(s.Q[k]), LAMBDA newdir :
             flowdirchangedFrom([(IF newdir * s.FlowDir[k] < 0
                                  THEN MSXqual_reversesegs(s, k) ELSE s)
                                    EXCEPT !.FlowDir[k] = newdir],
                                k + 1,
                                IF newdir # s.FlowDir[k] THEN 1 ELSE flowchanged))

flowdirchanged(s) == flowdirchangedFrom(s, 1, 0)

\* advects the segments of each pipe: a free segment is taken for the link's entrance
RECURSIVE advectSegsFrom(_, _)
advectSegsFrom(s, k) ==
    IF k > NLinks \/ s.crashed THEN s
    ELSE Let(MSXqual_getFreeSeg(s, RZero, ZeroC), LAMBDA r :
             advectSegsFrom([r.st EXCEPT !.NewSeg[k] = r.seg], k + 1))

advectSegs(s) == advectSegsFrom(s, 1)

\* the first n segments of the free list, from FreeSeg along prev
FreeList(s, n) == SegsFrom(s, s.FreeSeg, n, <<>>)

\* what is seen of the inflow of volume v from link k: the link's segments
\* and their volumes and concentrations, the count and the free list, before
\* (state s) and after (r.st), and the volume credited to the node
ObserveInflow(s, k, v, volin, r) ==
    Let(SegList(s, k), LAMBDA segs :
    Let(SegList(r.st, k), LAMBDA segsAfter :
    Let([k |-> k, v |-> v,
         segs |-> segs, segsAfter |-> segsAfter,
         vol |-> [i \in DOMAIN segs |-> s.Seg[segs[i]].v],
         volAfter |-> [i \in DOMAIN segs |-> r.st.Seg[segs[i]].v],
         sameC |-> \A i \in DOMAIN segs : r.st.Seg[segs[i]].c = s.Seg[segs[i]].c,
         nsegs |-> s.nsegs[k], nsegsAfter |-> r.st.nsegs[k],
         free |-> FreeList(s, 1),
         freeAfter |-> FreeList(r.st, Len(segs) - Len(segsAfter) + 1),
         LastSegAfter |-> r.st.LastSeg[k],
         credited |-> RSub(r.volin, volin)],
        LAMBDA seen : [r EXCEPT !.st.obs.inflows = @ \cup {seen}])))

\* a pass that leaves a used up segment where it is, off every list
inflowPassLeaking(r, k) ==
    LET s == r.st
        seg == s.FirstSeg[k]
        vseg == RMin(s.Seg[seg].v, r.v)
        v1 == RSub(r.v, vseg)
        first == s.Seg[seg].prev
        s1 == IF RLe(RZero, v1) /\ RLe(s.Seg[seg].v, vseg)
              THEN LET a == [s EXCEPT !.FirstSeg[k] = first,
                                      !.nsegs[k] = @ - 1]
                   IN  IF first = NULL
                       THEN [a EXCEPT !.LastSeg[k] = NULL]
                       ELSE [a EXCEPT !.Seg[first].next = NULL]
              ELSE [s EXCEPT !.Seg[seg].v = RSub(@, vseg)]
    IN  IF ~ RLt(RZero, r.v) \/ seg = NULL THEN r
        ELSE [st |-> s1, v |-> v1,
              volin |-> RAdd(r.volin, vseg),
              massin |-> Array([m \in SpeciesIx |->
                            RAdd(r.massin[m],
                                 RMul(RMul(vseg, s.Seg[seg].c[m]), LperFT3))])]

\* one pass of the while loop of evalnodeinflow: r.v is the flow volume
\* still to be moved
inflowPass(r, k) ==
    LET s == r.st
        seg == s.FirstSeg[k]
        vseg == RMin(s.Seg[seg].v, r.v)
        v1 == RSub(r.v, vseg)
        first == s.Seg[seg].prev
        s1 == IF RLe(RZero, v1) /\ RLe(s.Seg[seg].v, vseg)
              THEN LET a == [s EXCEPT !.FirstSeg[k] = first,
                                      !.nsegs[k] = @ - 1]
                       b == IF first = NULL
                            THEN [a EXCEPT !.LastSeg[k] = NULL]
                            ELSE [a EXCEPT !.Seg[first].next = NULL]
                   IN  [b EXCEPT !.Seg[seg].prev = s.FreeSeg,
                                 !.FreeSeg = seg]
              ELSE [s EXCEPT !.Seg[seg].v = RSub(@, vseg)]
    IN  IF ~ RLt(RZero, r.v) \/ seg = NULL THEN r
        ELSE [st |-> s1, v |-> v1,
              volin |-> RAdd(r.volin, vseg),
              massin |-> Array([m \in SpeciesIx |->
                            RAdd(r.massin[m],
                                 RMul(RMul(vseg, s.Seg[seg].c[m]), LperFT3))])]

\* passes lo..hi of the while loop; a pass after the loop has ended does nothing
\* (the range of passes is halved, first half first)
RECURSIVE inflowLoop(_, _, _, _)
inflowLoop(r, k, lo, hi) ==
    IF lo > hi \/ ~ RLt(RZero, r.v) THEN r
    ELSE IF lo = hi THEN inflowPass(r, k)
    ELSE LET mid == (lo + hi) \div 2
         IN  inflowLoop(inflowLoop(r, k, lo, mid), k, mid + 1, hi)

\* adds the contribution of link k's outflow to the inflow of its downstream
\* node: every pass but the last removes a segment, so the link's segments
\* bound the passes
evalnodeinflow(s, k, tstep, volin, massin) ==
    Let(inflowLoop([st |-> s, v |-> RMul(RAbs(s.Q[k]), tstep),
                    volin |-> volin, massin |-> massin],
                   k, 1, Len(SegList(s, k)) + 1),
        LAMBDA r : ObserveInflow(s, k, RMul(RAbs(s.Q[k]), tstep), volin, r))

\* what is seen of a release of volume v at quality c into link k: the last
\* segment and the new one, before (state s) and after
ObserveRelease(s, k, v, c, after) ==
    LET last == s.LastSeg[k]
        new == s.NewSeg[k]
    IN  [after EXCEPT !.obs.releases = @ \cup
            {[k |-> k, v |-> v, c |-> c, last |-> last, new |-> new,
              lastC |-> s.Seg[last].c, lastV |-> s.Seg[last].v,
              nsegs |-> s.nsegs[k], MaxSegments |-> s.MaxSegments,
              lastAfter |-> after.LastSeg[k], nsegsAfter |-> after.nsegs[k],
              lastCAfter |-> after.Seg[last].c, lastVAfter |-> after.Seg[last].v,
              lastPrevAfter |-> after.Seg[last].prev,
              newCAfter |-> after.Seg[new].c, newVAfter |-> after.Seg[new].v,
              newNextAfter |-> after.Seg[new].next,
              FreeSegAfter |-> after.FreeSeg]}]

\* evalnodeoutflow without its test of the link's segment count
evalnodeoutflowUncapped(s, k, upnodequal, tstep) ==
    LET v == RMul(RAbs(s.Q[k]), tstep)
        new == s.NewSeg[k]
        s0 == Deref(s, new)
        s1 == [s0 EXCEPT !.Seg[new].c = [m \in SpeciesIx |->
                                            IF Species[m].type = BULK
                                            THEN upnodequal[m] ELSE @[m]],
                         !.obs.head[k] = IF @ = 0 THEN downstreamOf(s.FlowDir, k) ELSE @]
        seg == s1.LastSeg[k]
        useNewSeg == seg # NULL
                     /\ ~ MSXqual_isSame(s1.Seg[seg].c, upnodequal)
        sv == s1.Seg[seg].v
        merged == Array([m \in SpeciesIx |->
                      IF Species[m].type = BULK
                      THEN RDiv(RAdd(RMul(s1.Seg[seg].c[m], sv), RMul(upnodequal[m], v)),
                                RAdd(sv, v))
                      ELSE s1.Seg[seg].c[m]])
    IN  IF s.crashed \/ v = RZero THEN s
        ELSE IF s0.crashed THEN s0
        ELSE IF seg # NULL /\ ~ useNewSeg
        THEN ObserveRelease(s1, k, v, upnodequal,
                            MSXqual_removeSeg([s1 EXCEPT !.Seg[seg].c = merged,
                                                         !.Seg[seg].v = RAdd(sv, v)], new))
        ELSE ObserveRelease(s1, k, v, upnodequal,
                            MSXqual_addSeg([s1 EXCEPT !.Seg[new].v = v], k, new))

\* a release that does not return early when the volume released is zero
evalnodeoutflowEager(s, k, upnodequal, tstep) ==
    LET v == RMul(RAbs(s.Q[k]), tstep)
        new == s.NewSeg[k]
        s0 == Deref(s, new)
        s1 == [s0 EXCEPT !.Seg[new].c = [m \in SpeciesIx |->
                                            IF Species[m].type = BULK
                                            THEN upnodequal[m] ELSE @[m]],
                         !.obs.head[k] = IF @ = 0 THEN downstreamOf(s.FlowDir, k) ELSE @]
        seg == s1.LastSeg[k]
        useNewSeg == seg # NULL
                     /\ ~ MSXqual_isSame(s1.Seg[seg].c, upnodequal)
                     /\ s1.nsegs[k] < s1.MaxSegments
        sv == s1.Seg[seg].v
        merged == Array([m \in SpeciesIx |->
                      IF Species[m].type = BULK
                      THEN RDiv(RAdd(RMul(s1.Seg[seg].c[m], sv), RMul(upnodequal[m], v)),
                                RAdd(sv, v))
                      ELSE s1.Seg[seg].c[m]])
    IN  IF s.crashed THEN s
        ELSE IF s0.crashed THEN s0
        ELSE IF seg # NULL /\ ~ useNewSeg
        THEN ObserveRelease(s1, k, v, upnodequal,
                            MSXqual_removeSeg([s1 EXCEPT !.Seg[seg].c = merged,
                                                         !.Seg[seg].v = RAdd(sv, v)], new))
        ELSE ObserveRelease(s1, k, v, upnodequal,
                            MSXqual_addSeg([s1 EXCEPT !.Seg[new].v = v], k, new))

\* releases flow volume and mass from the upstream node of link k
evalnodeoutflow(s, k, upnodequal, tstep) ==
    LET v == RMul(RAbs(s.Q[k]), tstep)
        new == s.NewSeg[k]
        s0 == Deref(s, new)
        s1 == [s0 EXCEPT !.Seg[new].c = [m \in SpeciesIx |->
                                            IF Species[m].type = BULK
                                            THEN upnodequal[m] ELSE @[m]],
                         !.obs.head[k] = IF @ = 0 THEN downstreamOf(s.FlowDir, k) ELSE @]
        seg == s1.LastSeg[k]
        useNewSeg == seg # NULL
                     /\ ~ MSXqual_isSame(s1.Seg[seg].c, upnodequal)
                     /\ s1.nsegs[k] < s1.MaxSegments
        sv == s1.Seg[seg].v
        merged == Array([m \in SpeciesIx |->
                      IF Species[m].type = BULK
                      THEN RDiv(RAdd(RMul(s1.Seg[seg].c[m], sv), RMul(upnodequal[m], v)),
                                RAdd(sv, v))
                      ELSE s1.Seg[seg].c[m]])
    IN  IF s.crashed \/ v = RZero THEN s
        ELSE IF s0.crashed THEN s0
        ELSE IF seg # NULL /\ ~ useNewSeg
        THEN ObserveRelease(s1, k, v, upnodequal,
                            MSXqual_removeSeg([s1 EXCEPT !.Seg[seg].c = merged,
                                                         !.Seg[seg].v = RAdd(sv, v)], new))
        ELSE ObserveRelease(s1, k, v, upnodequal,
                            MSXqual_addSeg([s1 EXCEPT !.Seg[new].v = v], k, new))

\* the loop of noflowqual over the links incident on node n
RECURSIVE noflowSum(_, _, _, _, _)
noflowSum(s, n, a, c, kount) ==
    IF a > Len(Adjlist[n]) THEN [c |-> c, kount |-> kount]
    ELSE LET k == Adjlist[n][a].link
             dir == s.FlowDir[k]
             inflow == (LinkN2[k] = n /\ dir >= 0) \/ (LinkN1[k] = n /\ dir < 0)
             seg == IF inflow THEN s.FirstSeg[k] ELSE s.LastSeg[k]
         IN  IF seg # NULL
             THEN noflowSum(s, n, a + 1,
                            Array([m \in SpeciesIx |-> RAdd(c[m], s.Seg[seg].c[m])]), kount + 1)
             ELSE noflowSum(s, n, a + 1, c, kount)

\* quality of a junction with no inflow: the average of its adjoining segments
noflowqual(s, n) ==
    Let(noflowSum(s, n, 1, ZeroC, 0), LAMBDA r :
        IF r.kount > 0
        THEN Array([m \in SpeciesIx |-> RDiv(r.c[m], RInt(r.kount))])
        ELSE r.c)

\* the while loop of getSourceQual: the cursor of pattern p is moved along the
\* list until its interval is k or the list has ended
RECURSIVE advancePattern(_, _)
advancePattern(p, k) ==
    IF p.current # NULL /\ p.interval < k
    THEN advancePattern([p EXCEPT !.current = IF @ < p.length THEN @ + 1 ELSE NULL,
                                  !.interval = @ + 1], k)
    ELSE p

\* 10.0 * TINY, the outflow below which a node's sources are not evaluated
qcutoff == Rat(1, 100000)

\* source concentration (or mass flow) in the current time period
getSourceQual(s, source) ==
    Let(IF source.type = MASS THEN RDiv(source.c0, RInt(60)) ELSE source.c0, LAMBDA c :
        IF source.pat = 0 THEN [st |-> s, val |-> c]
        ELSE Let(((s.Qtime + env.project.Pstart * MSEC) \div (env.project.Pstep * MSEC))
                     % s.Pattern[source.pat].length,
                 LAMBDA k :
             Let(IF k # s.Pattern[source.pat].interval
                 THEN advancePattern(IF k < s.Pattern[source.pat].interval
                                     THEN [s.Pattern[source.pat] EXCEPT
                                              !.current = MinI(1, @.length),
                                              !.interval = 0]
                                     ELSE s.Pattern[source.pat], k)
                 ELSE s.Pattern[source.pat],
                 LAMBDA p :
             Let(IF p.current # NULL THEN p.mult[p.current] ELSE RInt(1), LAMBDA f :
                 [st |-> [s EXCEPT !.Pattern[source.pat] = p,
                                   !.obs.srcEval = @ \cup {[pat |-> source.pat, k |-> k,
                                                            current |-> p.current,
                                                            f |-> f]}],
                  val |-> RMul(c, f)]))))

\* updates the concentration leaving node n of the species of a source
addSource(s, n, source, volout, dt) ==
    IF RLt(RZero, source.c0) /\ Species[source.species].type = BULK
    THEN Let(getSourceQual(s, source), LAMBDA q :
         Let(IF source.type = CONCEN
             THEN IF RLt(q.st.D[n], RZero)
                  THEN RMul(RMul(RNeg(q.val), q.st.D[n]), dt) ELSE RZero
             ELSE IF source.type = MASS THEN RDiv(RMul(q.val, dt), LperFT3)
             ELSE IF source.type = SETPOINT
             THEN IF RLt(q.st.NodeC[n][source.species], q.val)
                  THEN RMul(RSub(q.val, q.st.NodeC[n][source.species]), volout)
                  ELSE RZero
             ELSE IF source.type = FLOWPACED THEN RMul(q.val, volout)
             ELSE RZero,
             LAMBDA massadded :
             [q.st EXCEPT !.NodeC[n][source.species] = RAdd(@, RDiv(massadded, volout))]))
    ELSE s

\* the while loop of sourceInput over the sources of node n, from the a-th on
RECURSIVE addSources(_, _, _, _, _)
addSources(s, n, a, volout, dt) ==
    IF a > Len(s.sources[n]) THEN s
    ELSE addSources(addSource(s, n, s.sources[n][a], volout, dt), n, a + 1, volout, dt)

\* mass additions from the water-quality sources of node n
sourceInput(s, n, volout, dt) ==
    IF s.sources[n] = <<>> \/ RLe(RDiv(volout, dt), qcutoff) THEN s
    ELSE Let(addSources(s, n, 1, volout, dt), LAMBDA s1 :
         Let(MSXchem_equil(s1, TANK, s1.NodeC[n]), LAMBDA e :
             [e.st EXCEPT !.NodeC[n] = e.c]))

\* computes junction n's new quality from its inflow volume and mass,
\* including any source contribution
findnodequal(s, n, volin, massin, volout, tstep) ==
    Let(RSub(volin, RMul(RMin(RZero, s.D[n]), tstep)), LAMBDA volin1 :
    Let(MSXchem_equil(s, TANK,
                      IF RLt(RZero, volin1)
                      THEN Array([m \in SpeciesIx |->
                                    RDiv(RDiv(massin[m], volin1), LperFT3)])
                      ELSE noflowqual(s, n)),
        LAMBDA e : sourceInput([e.st EXCEPT !.NodeC[n] = e.c], n, volout, tstep)))

\* the first loop of topological_transport over the links incident on node n:
\* inflow is taken from the links that flow into n, outflow rates are summed
RECURSIVE inflowLinks(_, _, _, _, _, _, _)
inflowLinks(s, n, a, dt, volin, massin, volout) ==
    IF a > Len(Adjlist[n])
    THEN [st |-> s, volin |-> volin, massin |-> massin, volout |-> volout]
    ELSE IF downstreamOf(s.FlowDir, Adjlist[n][a].link) = n
    THEN Let(evalnodeinflow(s, Adjlist[n][a].link, dt, volin, massin), LAMBDA r :
             inflowLinks(r.st, n, a + 1, dt, r.volin, r.massin, volout))
    ELSE inflowLinks(s, n, a + 1, dt, volin, massin,
                     RAdd(volout, RAbs(s.Q[Adjlist[n][a].link])))

\* the second loop: flow at the node's new quality is sent into its outflow links
RECURSIVE outflowLinks(_, _, _, _)
outflowLinks(s, n, a, dt) ==
    IF a > Len(Adjlist[n]) \/ s.crashed THEN s
    ELSE LET k == Adjlist[n][a].link
         IN  IF upstreamOf(s.FlowDir, k) = n
             THEN outflowLinks(evalnodeoutflow(s, k, s.NodeC[n], dt), n, a + 1, dt)
             ELSE outflowLinks(s, n, a + 1, dt)

\* the nodes are analysed in the order SortedNodes[j], j = 1..N; an entry the
\* sorter never filled is 0, and Node[0] has no concentration array
RECURSIVE transportNodes(_, _, _)
transportNodes(s, j, dt) ==
    IF j > NNodes \/ s.crashed THEN s
    ELSE IF s.SortedNodes[j] = 0 THEN transportNodes(NullDeref(s), j + 1, dt)
    ELSE Let(inflowLinks(s, s.SortedNodes[j], 1, dt, RZero, ZeroC, RZero), LAMBDA r :
         Let(findnodequal(r.st, s.SortedNodes[j], r.volin, r.massin,
                          RMul(RAdd(r.volout, RMax(RZero, s.D[s.SortedNodes[j]])), dt),
                          dt),
             LAMBDA s1 :
             transportNodes(outflowLinks(s1, s.SortedNodes[j], 1, dt), j + 1, dt)))

topological_transport(s, dt) == transportNodes(s, 1, dt)

\* the volume held by the segments of link k
RECURSIVE SumVolume(_, _, _, _)
SumVolume(s, seg, n, sum) ==
    IF seg = NULL \/ n = 0 \/ IsNaN(sum) THEN sum
    ELSE SumVolume(s, s.Seg[seg].prev, n - 1, RAdd(sum, s.Seg[seg].v))

SegVolume(s, k) == SumVolume(s, s.FirstSeg[k], Cardinality(DOMAIN s.Seg), RZero)

\* what is seen at the end of a completed transport sub-step, which began
\* qtime milliseconds after Qtime and lasted dt
ObserveSubstep(s, qtime, dt) ==
    [s EXCEPT !.obs.substeps = MinI(@ + 1, 2),
              !.obs.volumeLost = @ \cup {k \in Links : SegVolume(s, k) # LINKVOL(k)},
              !.obs.trace = Append(@, [op |-> "transport", from |-> s.Qtime + qtime,
                                       dt |-> dt, Q |-> s.Q, FlowDir |-> s.FlowDir,
                                       SortedNodes |-> s.SortedNodes])]

\* the while loop of transport: qtime of the tstep milliseconds are done
RECURSIVE transportLoop(_, _, _)
transportLoop(s, tstep, qtime) ==
    IF s.OutOfMemory \/ s.crashed \/ qtime >= tstep THEN [st |-> s, errcode |-> 0]
    ELSE Let(MSXchem_react(s, Rat(MinI(s.Qstep, tstep - qtime), MSEC)), LAMBDA r :
         IF r.errcode # 0 THEN r
         ELSE Let(topological_transport(advectSegs(r.st),
                                        Rat(MinI(s.Qstep, tstep - qtime), MSEC)),
                  LAMBDA s1 :
                  IF s1.crashed THEN [st |-> s1, errcode |-> 0]
                  ELSE IF MSXerr_mathError(s1) # 0
                  THEN [st |-> ObserveSubstep([s1 EXCEPT
                                                  !.obs.reported = s1.mathErrorMsg,
                                                  !.obs.flaggedSteps = MinI(@ + 1, 2)],
                                              qtime, MinI(s.Qstep, tstep - qtime)),
                        errcode |-> ERR_ILLEGAL_MATH]
                  ELSE transportLoop(ObserveSubstep(s1, qtime, MinI(s.Qstep, tstep - qtime)),
                                     tstep, qtime + MinI(s.Qstep, tstep - qtime))))

\* transports constituent mass under a period of constant hydraulic conditions
transport(s, tstep) ==
    Let(MSXerr_clearMathError(s), LAMBDA s0 :
        transportLoop([s0 EXCEPT !.obs.transports = MinI(@ + 1, 2),
                                 !.obs.startFlag = <<s0.mathError, s0.mathErrorMsg>>],
                      tstep, 0))

-----------------------------------------------------------------------------
(* The hydraulics file and the binary output file.  env.hyd holds the      *)
(* records of the hydraulics file: time, demands D, flows Q and the step   *)
(* to the next record, in seconds, ft3/s.                                  *)

HydRecords == env.hyd.records

\* retrieves the hydraulic solution and the time of the next hydraulic event
getHydVars(s) ==
    LET s0 == Deref(s, s.HydFile)
    IN  IF s.crashed THEN [st |-> s, errcode |-> 0]
        ELSE IF s0.crashed THEN [st |-> s0, errcode |-> 0]
        ELSE IF s.HydFile = NULL \/ s.HydPos > Len(HydRecords)
        THEN [st |-> s0, errcode |-> ERR_READ_HYD_FILE]
        ELSE LET rec == HydRecords[s.HydPos]
             IN  [st |-> [s EXCEPT !.D = rec.D,
                                   !.Q = Array([k \in Links |->
                                             IF RLt(RAbs(rec.Q[k]), Q_STAGNANT)
                                             THEN RZero ELSE rec.Q[k]]),
                                   !.HydPos = @ + 1,
                                   !.Htime = (rec.time + rec.step) * MSEC,
                                   !.obs.hydReads = MinI(@ + 1, 2)],
                  errcode |-> 0]

\* opens the binary output file: an open one is closed, the file is truncated
MSXout_open(s) ==
    [s EXCEPT !.OutFile = [open |-> TRUE, results |-> 0, closings |-> 0],
              !.Nperiods = 0]

MSXout_saveResults(s) == [s EXCEPT !.OutFile.results = @ + 1]

MSXout_saveFinalResults(s) == [s EXCEPT !.OutFile.closings = @ + 1]

\* CALL(err, f): err = (err > 100) ? err : f
CALL(errcode, r) ==
    IF errcode > CALL_LIMIT THEN [st |-> r.before, errcode |-> errcode]
    ELSE [st |-> r.st, errcode |-> r.errcode]

\* CALL(errcode, sortNodes()): the sorter's return value is its error code
Sorted(errcode, before, after) ==
    CALL(errcode, [before |-> before, st |-> after, errcode |-> after.obs.sortErr])

\* what is seen of a hydraulic event: the time of it, the directions before
\* and after it, whether the segments were initialised and the nodes sorted
ObserveEvent(r, before) ==
    [r EXCEPT !.st.obs.trace =
        Append(@, [op |-> "event", at |-> before.Qtime,
                   read |-> r.st.HydPos # before.HydPos,
                   dirBefore |-> before.FlowDir, dirAfter |-> r.st.FlowDir,
                   initSegs |-> r.st.obs.initSegs /\ ~ before.obs.initSegs,
                   sorted |-> r.st.obs.sortRuns # before.obs.sortRuns])]

\* the hydraulic event of MSXqual_step at Qtime = Htime
HydEvent(s, errcode) ==
    Let(CALL(errcode, [before |-> s] @@ getHydVars(s)), LAMBDA h :
        IF h.st.crashed \/ ~ (h.st.Qtime < h.st.Dur) THEN ObserveEvent(h, s)
        ELSE Let(IF h.st.Qtime = 0 THEN [st |-> initSegs(h.st), flowchanged |-> 1]
                 ELSE flowdirchanged(h.st),
                 LAMBDA f :
                 Let(IF f.flowchanged # 0 /\ ~ f.st.crashed
                     THEN Sorted(h.errcode, f.st, sortNodes(f.st))
                     ELSE [st |-> f.st, errcode |-> h.errcode],
                     LAMBDA r : ObserveEvent(r, s))))

\* results are reported when it is time to do so
Report(s, errcode) ==
    IF ~ s.crashed /\ s.Saveflag # 0 /\ s.Qtime = s.Rtime
    THEN Let(CALL(errcode, [before |-> s, st |-> MSXout_saveResults(s), errcode |-> 0]),
             LAMBDA r :
             [st |-> [r.st EXCEPT !.Rtime = @ + s.Rstep * MSEC, !.Nperiods = @ + 1],
              errcode |-> r.errcode])
    ELSE [st |-> s, errcode |-> errcode]

\* the do-while loop of MSXqual_step: tstep milliseconds of the step remain
RECURSIVE stepLoop(_, _, _)
stepLoop(s, tstep, errcode) ==
    LET hstep == s.Htime - s.Qtime
        dt == IF hstep <= tstep THEN hstep ELSE tstep
    IN  Let(IF hstep > tstep \/ dt > 0
            THEN CALL(errcode, [before |-> s] @@ transport(s, dt))
            ELSE [st |-> s, errcode |-> errcode],
            LAMBDA tr :
        Let(IF tr.st.crashed THEN tr.st ELSE [tr.st EXCEPT !.Qtime = @ + dt],
            LAMBDA s1 :
        Let(IF hstep <= tstep /\ s1.Qtime = s1.Htime /\ ~ s1.crashed
            THEN HydEvent(s1, tr.errcode)
            ELSE [st |-> s1, errcode |-> tr.errcode],
            LAMBDA ev :
        Let(IF hstep <= tstep THEN Report(ev.st, ev.errcode) ELSE ev, LAMBDA rp :
        Let(IF rp.st.OutOfMemory THEN ERR_MEMORY ELSE rp.errcode, LAMBDA err :
            IF ~ rp.st.crashed /\ err = 0 /\ tstep - dt > 0
            THEN stepLoop(rp.st, tstep - dt, err)
            ELSE [st |-> rp.st, errcode |-> err])))))

\* updates water quality over a single time step
MSXqual_step(s) ==
    Let(stepLoop(s, IF s.Qtime + s.Qstep > s.Dur THEN s.Dur - s.Qtime ELSE s.Qstep, 0),
        LAMBDA r :
        IF ~ r.st.crashed /\ r.st.Dur - r.st.Qtime <= 0 /\ r.st.Saveflag # 0
        THEN CALL(r.errcode, [before |-> r.st, st |-> MSXout_saveFinalResults(r.st),
                              errcode |-> 0])
        ELSE r)

-----------------------------------------------------------------------------
(* The quality system's open, init and close (msxqual.c, msxproj.c) *)

\* what is seen of one toolkit call
Obs0 ==
    [sortRuns |-> 0, sortErr |-> 0, invalid |-> 0, evalNaN |-> FALSE,
     nanUnflagged |-> FALSE, clamped |-> FALSE, clampUnflagged |-> FALSE,
     negKinds |-> {}, pipeErrs |-> {}, reacts |-> 0, reactErr |-> 0,
     initSegs |-> FALSE, substeps |-> 0, volumeLost |-> {}, reported |-> NoMsg,
     transports |-> 0, startFlag |-> <<0, NoMsg>>, hydReads |-> 0,
     firstMsg |-> NoMsg, flaggedSteps |-> 0, head |-> [k \in Links |-> 0],
     srcEval |-> {}, trace |-> <<>>, releases |-> {}, reactions |-> {},
     inflows |-> {}, solveSteps |-> 0, solveEnded |-> FALSE]

\* firstMsg, flaggedSteps and head are kept from call to call
NewCall(s) ==
    [s EXCEPT !.obs = [Obs0 EXCEPT !.firstMsg = s.obs.firstMsg,
                                   !.flaggedSteps = s.obs.flaggedSteps,
                                   !.head = s.obs.head]]

\* the MSX struct of a process that has made no call: static storage is zero
MSX0 ==
    [ProjectOpened |-> FALSE, QualityOpened |-> FALSE, initialised |-> FALSE,
     HydFile |-> NULL, HydPos |-> 1, Dur |-> 0,
     Qstep |-> 0, Rstep |-> 0, Rstart |-> 0, MaxSegments |-> 0,
     Qtime |-> 0, Htime |-> 0, Rtime |-> 0, Nperiods |-> 0,
     Saveflag |-> 0, OutFile |-> [open |-> FALSE, results |-> 0, closings |-> 0],
     Q |-> [k \in Links |-> RZero], D |-> [n \in Nodes |-> RZero],
     FlowDir |-> [k \in Links |-> ZERO_FLOW],
     SortedNodes |-> [j \in Nodes |-> 0],
     NodeC |-> [n \in Nodes |-> ZeroC],
     Seg |-> [i \in {NULL} |-> [v |-> RZero, c |-> ZeroC, prev |-> NULL, next |-> NULL]],
     PoolTop |-> 0, FreeSeg |-> NULL, FreeSegStale |-> FALSE,
     FirstSeg |-> [k \in Links |-> NULL], LastSeg |-> [k \in Links |-> NULL],
     NewSeg |-> [k \in Links |-> NULL], nsegs |-> [k \in Links |-> 0],
     OutOfMemory |-> FALSE, mathError |-> 0, mathErrorMsg |-> NoMsg,
     mathErrorBy |-> 0, ompLink |-> 0, omp |-> [lastWriter |-> 0, staleFlag |-> FALSE],
     Pattern |-> <<>>, sources |-> [n \in Nodes |-> <<>>], QualPool |-> "null",
     fault |-> FALSE, crashed |-> FALSE, obs |-> Obs0]

\* opens the project: defaults, then the options of the input file; the
\* objects are calloc'ed
MSXproj_open(s) ==
    [s EXCEPT !.QualityOpened = FALSE,
              !.HydFile = NULL, !.OutFile.open = FALSE,
              !.Qstep = env.project.Qstep,
              !.Rstep = env.project.Rstep,
              !.Rstart = 0,
              !.Dur = 0,
              !.MaxSegments = MaxI(env.project.MaxSegments, MIN_MAXSEGMENTS),
              !.nsegs = [k \in Links |-> 0],
              !.NodeC = [n \in Nodes |-> ZeroC],
              !.Pattern = [i \in 1..Len(env.project.Pattern) |->
                              [length |-> Len(env.project.Pattern[i]),
                               mult |-> env.project.Pattern[i],
                               interval |-> 0,
                               current |-> Len(env.project.Pattern[i])]],
              !.sources = [n \in Nodes |-> <<>>],
              !.ProjectOpened = TRUE]

\* opens the routing system: a new segment pool, calloc'ed arrays
MSXqual_open(s) ==
    [s EXCEPT !.Saveflag = 0,
              !.OutOfMemory = FALSE,
              !.PoolTop = 0,
              !.FirstSeg = [k \in Links |-> NULL],
              !.LastSeg = [k \in Links |-> NULL],
              !.NewSeg = [k \in Links |-> NULL],
              !.FlowDir = [k \in Links |-> ZERO_FLOW],
              !.SortedNodes = [j \in Nodes |-> 0],
              !.Q = [k \in Links |-> RZero],
              !.D = [n \in Nodes |-> RZero],
              !.QualPool = "live",
              !.QualityOpened = TRUE]

\* re-initializes the routing system
MSXqual_init(s) ==
    Let(Deref(s, s.HydFile), LAMBDA s0 :
        IF s0.crashed THEN [st |-> s0, errcode |-> 0]
        ELSE Let([s0 EXCEPT !.NodeC = [n \in Nodes |-> C0(n)],
                            !.Pattern = [i \in DOMAIN s.Pattern |->
                                            [s.Pattern[i] EXCEPT
                                                !.interval = 0,
                                                !.current = MinI(1, s.Pattern[i].length)]],
                            !.FreeSeg = NULL, !.FreeSegStale = FALSE,
                            !.PoolTop = 0,
                            !.HydPos = 1,
                            !.Htime = 0,
                            !.Qtime = 0,
                            !.Rtime = s.Rstart * MSEC,
                            !.Nperiods = 0],
                 LAMBDA s1 :
                 IF s1.Saveflag # 0 THEN [st |-> MSXout_open(s1), errcode |-> 0]
                 ELSE [st |-> s1, errcode |-> 0]))

\* closes the routing system and the project: the pool is freed, the files are closed
MSXqual_close(s) ==
    IF ~ s.ProjectOpened THEN s
    ELSE [s EXCEPT !.FreeSegStale = s.FreeSeg # NULL,
                   !.QualPool = IF @ = "null" THEN @ ELSE "freed",
                   !.QualityOpened = FALSE]

\* MSXproj_close without its last assignment, to MSX.ProjectOpened
MSXproj_closeStillOpened(s) ==
    [s EXCEPT !.HydFile = NULL, !.OutFile.open = FALSE,
              !.Pattern = <<>>, !.sources = [n \in Nodes |-> <<>>]]

\* closes the files and deletes the objects
MSXproj_close(s) ==
    [s EXCEPT !.HydFile = NULL, !.OutFile.open = FALSE,
              !.Pattern = <<>>, !.sources = [n \in Nodes |-> <<>>],
              !.ProjectOpened = FALSE]

-----------------------------------------------------------------------------
(* The projects and hydraulics files the process is run on *)

Lit(x) == [opcode |-> 7, fvalue |-> x, ivar |-> 0]
Var(i) == [opcode |-> 8, fvalue |-> RZero, ivar |-> i]
Op(n) == [opcode |-> n, fvalue |-> RZero, ivar |-> 0]

NoExpr == <<>>
SpeciesOf(id, pipeExprType, pipeExpr) ==
    [id |-> id, type |-> BULK, pipeExprType |-> pipeExprType, pipeExpr |-> pipeExpr,
     tankExprType |-> NO_EXPR, tankExpr |-> NoExpr, root |-> NoExpr]

\* A - A, and (A - A) / (A - A): 0 / 0
ZeroOverZero == <<Var(1), Var(1), Op(4), Var(1), Var(1), Op(4), Op(6)>>
\* A - 3
AMinus3 == <<Var(1), Lit(RInt(3)), Op(4)>>
\* (A - 1) / (A - 1) - 1: 0 / 0 where A = 1, else 0
NaNAtOne ==
    <<Var(1), Lit(RInt(1)), Op(4), Var(1), Lit(RInt(1)), Op(4), Op(6), Lit(RInt(1)), Op(4)>>
\* (A - 2) / (A - 2): 0 / 0 where A = 2, else 1
NaNAtTwo == <<Var(1), Lit(RInt(2)), Op(4), Var(1), Lit(RInt(2)), Op(4), Op(6)>>
\* - K1 * A, with the constant K1 = 1/600 per second
FirstOrderDecay == <<Var(3), Var(1), Op(5), Op(9)>>
\* a constant rate of -1/100 per second
ZeroOrderDecay == <<Lit(Rat(-1, 100))>>
\* a rate of 0: a conservative species
NoDecay == <<Lit(RZero)>>

Project0 ==
    [Species |-> <<SpeciesOf("A", RATE, NoDecay)>>, Term |-> <<>>, Const |-> <<>>,
     Pattern |-> <<<<RInt(1), RInt(2)>>>>,
     Solver |-> EUL, Compiler |-> NO_COMPILER, rateUcf |-> RInt(1),
     integFails |-> {}, newtonFails |-> FALSE,
     c0 |-> <<RInt(0), RInt(1), RInt(2)>>,
     Qstep |-> DEFAULT_QSTEP, Rstep |-> 300, MaxSegments |-> 50,
     Pstep |-> 300, Pstart |-> 0]

ProjTracer == Project0
ProjUniform == [Project0 EXCEPT !.c0 = <<RInt(1), RInt(1), RInt(1)>>]
ProjDefaultSegs == [Project0 EXCEPT !.MaxSegments = MAXSEGMENTS]
ProjFewSegs == [Project0 EXCEPT !.MaxSegments = 10]
ProjZeroOrder == [Project0 EXCEPT !.Species = <<SpeciesOf("A", RATE, ZeroOrderDecay)>>]
ProjFirstOrder ==
    [Project0 EXCEPT !.Species = <<SpeciesOf("A", RATE, FirstOrderDecay),
                                  SpeciesOf("B", FORMULA, AMinus3)>>,
                     !.Const = <<Rat(1, 600)>>]
ProjEquil ==
    [Project0 EXCEPT !.Species = <<SpeciesOf("A", RATE, ZeroOrderDecay),
                                  [SpeciesOf("E", EQUIL, <<Var(2)>> \o AMinus3 \o <<Op(4)>>)
                                      EXCEPT !.root = AMinus3]>>]
ProjNewtonFails == [ProjEquil EXCEPT !.newtonFails = TRUE]
ProjNaN ==
    [Project0 EXCEPT !.Species = <<SpeciesOf("A", RATE, <<Var(3)>>),
                                  SpeciesOf("B", FORMULA, ZeroOverZero)>>,
                     !.Term = <<[id |-> "T", expr |-> ZeroOverZero]>>]
ProjNaNCompiled == [ProjNaN EXCEPT !.Compiler = GC]
\* the first invalid result is A's rate in link 1 and B's formula in links 2, 3
ProjNaNByLink ==
    [Project0 EXCEPT !.Species = <<SpeciesOf("A", RATE, NaNAtOne),
                                  SpeciesOf("B", FORMULA, NaNAtTwo)>>,
                     !.Compiler = GC]
\* a source pattern of three periods, each of the length of a quality step
ProjPattern == [Project0 EXCEPT !.Pattern = <<<<RInt(2), RInt(3), RInt(4)>>>>]
ProjRK5 == [ProjZeroOrder EXCEPT !.Solver = RK5]
ProjRK5FailsFirst == [ProjRK5 EXCEPT !.integFails = {1}]
ProjRK5FailsLast == [ProjRK5 EXCEPT !.integFails = {NLinks}]

\* a hydraulics file: one record per period of step seconds with the flows
\* qs[i], closed by the record of the end of the run; demands balance the flows
Demand(q, n) ==
    LET into(k) == IF LinkN2[k] = n THEN q[k] ELSE IF LinkN1[k] = n THEN RNeg(q[k]) ELSE RZero
    IN  RAdd(into(1), RAdd(into(2), into(3)))

HydFileOf(qs, step) ==
    [dur |-> step * Len(qs),
     records |-> [i \in 1..(Len(qs) + 1) |->
                    LET q == qs[MinI(i, Len(qs))]
                    IN  [time |-> step * (i - 1),
                         Q |-> q,
                         D |-> [n \in Nodes |-> Demand(q, n)],
                         step |-> IF i <= Len(qs) THEN step ELSE 0]]]

Qa == Rat(1, 30)
Qb == Rat(1, 2)
Qtiny == Rat(1, 1000000)
\* the hydraulic time step, in seconds: that of the quality step
HYDSTEP == DEFAULT_QSTEP \div MSEC

Forward == <<Qa, Qa, Qa>>
HydSteady == HydFileOf(<<Forward, Forward>>, HYDSTEP)
HydCycle == HydFileOf(<<<<Qa, Qa, RNeg(Qa)>>, <<Qa, Qa, RNeg(Qa)>>>>, HYDSTEP)
HydBigCycle == HydFileOf(<<<<Qb, Qb, RNeg(Qb)>>, <<Qb, Qb, RNeg(Qb)>>>>, HYDSTEP)
HydReverse == HydFileOf(<<Forward, <<Qa, RNeg(Qa), Qa>>>>, HYDSTEP)
HydReverseViaZero ==
    HydFileOf(<<Forward, <<Qa, RZero, Qa>>, <<Qa, RNeg(Qa), Qa>>>>, HYDSTEP)
HydStagnant == HydFileOf(<<<<Qa, Qtiny, Qa>>, <<Qb, Qtiny, Qa>>>>, HYDSTEP)
\* one hydraulic period of two quality steps: no hydraulic event at the
\* reporting time between its ends
HydSparse == HydFileOf(<<Forward>>, 2 * HYDSTEP)

\* hydraulic periods of two thirds of a quality step: events fall within the
\* quality steps, and the flow of link 2 reverses at the first of them
HydOffbeat ==
    HydFileOf(<<Forward, <<Qa, RNeg(Qa), Qa>>, <<Qa, RNeg(Qa), Qa>>>>, 2 * (HYDSTEP \div 3))

\* the heap holds any number of segments, or runs out while the links are
\* filled, or at the first advection
HEAP_AMPLE == 100000
HEAP_INIT == 120
HEAP_ADVECT == 151


Env(project, hyd, heapSegs, nullTraps) ==
    [project |-> project, hyd |-> hyd, heapSegs |-> heapSegs, nullTraps |-> nullTraps,
     race |-> Sequential]

RouterEnvs ==
    {Env(ProjTracer, h, HEAP_AMPLE, TRUE) :
        h \in {HydSteady, HydCycle, HydReverse, HydReverseViaZero, HydStagnant,
               HydSparse}}
    \cup {Env(ProjUniform, HydBigCycle, HEAP_AMPLE, TRUE)}
    \cup {Env(p, HydSteady, HEAP_AMPLE, TRUE) : p \in {ProjDefaultSegs, ProjFewSegs}}
    \cup {Env(ProjTracer, HydSteady, h, b) : h \in {HEAP_INIT, HEAP_ADVECT}, b \in BOOLEAN}

\* hydraulics that change direction, stop and come between quality steps,
\* and projects whose reactions fail on the way
HydEnvs ==
    {Env(ProjTracer, h, HEAP_AMPLE, TRUE) :
        h \in {HydSteady, HydCycle, HydReverse, HydReverseViaZero, HydStagnant,
               HydSparse, HydOffbeat}}
    \cup {Env(p, HydReverse, HEAP_AMPLE, TRUE) : p \in {ProjNaN, ProjRK5FailsFirst}}
    \cup {Env(ProjUniform, HydBigCycle, HEAP_AMPLE, TRUE)}

ChemEnvs ==
    {Env(p, HydSteady, HEAP_AMPLE, TRUE) :
        p \in {ProjZeroOrder, ProjFirstOrder, ProjEquil, ProjNewtonFails, ProjNaN,
               ProjNaNCompiled, ProjNaNByLink, ProjRK5, ProjRK5FailsFirst,
               ProjRK5FailsLast}}
    \cup {[Env(ProjNaNByLink, HydSteady, HEAP_AMPLE, TRUE) EXCEPT !.race = Threaded(2)],
          [Env(ProjRK5FailsFirst, HydSteady, HEAP_AMPLE, TRUE) EXCEPT !.race = Threaded(1)]}

-----------------------------------------------------------------------------
(* The toolkit (msxtoolkit.c): one action per exported function.  call is  *)
(* the last call made: its name, the code it returned (-1 when the process *)
(* did not survive it), the number of calls made so far, and whether the   *)
(* caller has ever stepped a project it had not initialised.               *)

ReturnedOut(name, args, s, errcode, out) ==
    /\ MSX' = s
    /\ call' = [name |-> name, args |-> args, out |-> out,
                ret |-> IF s.crashed THEN -1 ELSE errcode,
                n |-> call.n + 1,
                misused |-> call.misused \/ (name = "MSXstep" /\ ~ MSX.initialised)]
    /\ UNCHANGED env

Returned(name, s, errcode) == ReturnedOut(name, <<>>, s, errcode, <<>>)

CanCall == ~ MSX.crashed /\ call.n < MaxCalls

\* MSXopen without its test of MSX.ProjectOpened
MSXopenAgain ==
    /\ CanCall
    /\ Returned("MSXopen",
                [MSXqual_open(MSXproj_open(NewCall(MSX))) EXCEPT !.initialised = FALSE], 0)

MSXopen ==
    /\ CanCall
    /\ LET s == NewCall(MSX)
       IN  IF s.ProjectOpened THEN Returned("MSXopen", s, ERR_MSX_OPENED)
           ELSE Returned("MSXopen",
                         [MSXqual_open(MSXproj_open(s)) EXCEPT !.initialised = FALSE], 0)

\* 1000 * n as the int product it is in MSXusehydfile (n is an INT4): the
\* low 32 bits of the product, as a signed number
IntTimes1000(n) ==
    LET m == (125 * n) % 536870912
    IN  IF m >= 268435456 THEN 8 * (m - 536870912) ELSE 8 * m

MSXusehydfile ==
    /\ CanCall
    /\ LET s == NewCall(MSX)
       IN  IF ~ s.ProjectOpened THEN Returned("MSXusehydfile", s, ERR_MSX_NOT_OPENED)
           ELSE Returned("MSXusehydfile",
                         [s EXCEPT !.HydFile = 1, !.HydPos = 1,
                                   !.Dur = IntTimes1000(env.hyd.dur)], 0)

MSXinit ==
    /\ CanCall
    /\ \E saveFlag \in {0, 1} :
         IF ~ MSX.ProjectOpened THEN Returned("MSXinit", NewCall(MSX), ERR_MSX_NOT_OPENED)
         ELSE Let(MSXqual_init([NewCall(MSX) EXCEPT !.Saveflag = saveFlag]), LAMBDA r :
                  Returned("MSXinit", [r.st EXCEPT !.initialised = TRUE], r.errcode))

MSXstep ==
    /\ CanCall
    /\ IF ~ MSX.ProjectOpened THEN Returned("MSXstep", NewCall(MSX), ERR_MSX_NOT_OPENED)
       ELSE Let(MSXqual_step(NewCall(MSX)), LAMBDA r : Returned("MSXstep", r.st, r.errcode))

\* the most steps MSXsolveQ is followed for
MaxSolveSteps == 4

\* the do-while loop of MSXsolveQ: n steps were made so far; a step is
\* skipped by CALL when err is above 100, and tleft is then what it was
RECURSIVE solveLoop(_, _, _, _)
solveLoop(s, err, tleft, n) ==
    IF err > 100 \/ n >= MaxSolveSteps
    THEN [st |-> [s EXCEPT !.obs.solveSteps = n,
                           !.obs.solveEnded = err > 100 \/ tleft <= 0],
          errcode |-> err]
    ELSE Let(MSXqual_step(s), LAMBDA r :
             IF ~ r.st.crashed /\ r.st.Dur - r.st.Qtime > 0 /\ r.errcode = 0
             THEN solveLoop(r.st, r.errcode, r.st.Dur - r.st.Qtime, n + 1)
             ELSE [st |-> [r.st EXCEPT !.obs.solveSteps = n + 1, !.obs.solveEnded = TRUE],
                   errcode |-> r.errcode])

\* runs the analysis over the entire simulation period
MSXsolveQ ==
    /\ CanCall
    /\ IF ~ MSX.ProjectOpened THEN Returned("MSXsolveQ", NewCall(MSX), ERR_MSX_NOT_OPENED)
       ELSE Let(MSXqual_init([NewCall(MSX) EXCEPT !.Saveflag = 1]), LAMBDA i :
            Let(solveLoop([i.st EXCEPT !.initialised = TRUE], i.errcode, 0, 0), LAMBDA r :
                Returned("MSXsolveQ", r.st, r.errcode)))

MSXclose ==
    /\ CanCall
    /\ LET s == NewCall(MSX)
       IN  Returned("MSXclose",
                    [MSXproj_close(MSXqual_close(s)) EXCEPT !.initialised = FALSE], 0)

-----------------------------------------------------------------------------
(* The toolkit's getters and setters (msxtoolkit.c).  The arguments of a   *)
(* call are drawn from the values below: ones in range, and ones below and *)
(* above the range; call.args keeps them and call.out what came back.      *)

TypeArgs == {MSX_NODE, MSX_LINK, MSX_PATTERN}
IndexArgs == {0, 1, NNodes + 1}
PatArgs == {-1, 0, 1, 2}
PeriodArgs == {0, 1, 3}
SourceTypeArgs == {MSX_NOSOURCE - 1, MSX_NOSOURCE + 1, MSX_FLOWPACED + 1}
LevelArgs == {RInt(-1), RInt(5)}

\* volume-weighted average concentration of species m in link k's segments
RECURSIVE segSums(_, _, _, _, _, _)
segSums(s, seg, m, n, vsum, msum) ==
    IF seg = NULL \/ n = 0 THEN [vsum |-> vsum, msum |-> msum]
    ELSE segSums(s, s.Seg[seg].prev, m, n - 1, RAdd(vsum, s.Seg[seg].v),
                 RAdd(msum, RMul(s.Seg[seg].c[m], s.Seg[seg].v)))

MSXqual_getNodeQual(s, j, m) ==
    IF Species[m].type = WALL THEN RZero ELSE s.NodeC[j][m]

MSXqual_getLinkQual(s, k, m) ==
    LET r == segSums(s, s.FirstSeg[k], m, Cardinality(DOMAIN s.Seg), RZero, RZero)
    IN  IF RLt(RZero, r.vsum) THEN RDiv(r.msum, r.vsum)
        ELSE RDiv(RAdd(MSXqual_getNodeQual(s, LinkN1[k], m),
                       MSXqual_getNodeQual(s, LinkN2[k], m)), RInt(2))

MSXgetqual ==
    /\ CanCall
    /\ \E type \in TypeArgs, index \in IndexArgs, species \in IndexArgs :
         LET s == NewCall(MSX)
             ret(errcode, value) ==
                 ReturnedOut("MSXgetqual", <<type, index, species>>, s, errcode, <<value>>)
         IN  IF ~ s.ProjectOpened THEN ret(ERR_MSX_NOT_OPENED, RZero)
             ELSE IF species < 1 \/ species > NumSpecies
             THEN ret(ERR_INVALID_OBJECT_INDEX, RZero)
             ELSE IF type = MSX_NODE
             THEN IF index < 1 \/ index > NNodes THEN ret(ERR_INVALID_OBJECT_INDEX, RZero)
                  ELSE ret(0, MSXqual_getNodeQual(s, index, species))
             ELSE IF type = MSX_LINK
             THEN IF index < 1 \/ index > NLinks THEN ret(ERR_INVALID_OBJECT_INDEX, RZero)
                  ELSE ret(0, MSXqual_getLinkQual(s, index, species))
             ELSE ret(ERR_INVALID_OBJECT_TYPE, RZero)

\* MSXgetcount without its test of MSX.ProjectOpened
MSXgetcountUnchecked ==
    /\ CanCall
    /\ \E type \in {MSX_SPECIES, MSX_PATTERN, MSX_NODE} :
         LET ret(errcode, count) ==
                 ReturnedOut("MSXgetcount", <<type>>, NewCall(MSX), errcode, <<count>>)
         IN  IF type = MSX_SPECIES THEN ret(0, NumSpecies)
             ELSE IF type = MSX_PATTERN THEN ret(0, Len(MSX.Pattern))
             ELSE ret(ERR_INVALID_OBJECT_TYPE, 0)

MSXgetcount ==
    /\ CanCall
    /\ \E type \in {MSX_SPECIES, MSX_PATTERN, MSX_NODE} :
         LET s == NewCall(MSX)
             ret(errcode, count) ==
                 ReturnedOut("MSXgetcount", <<type>>, s, errcode, <<count>>)
         IN  IF ~ s.ProjectOpened THEN ret(ERR_MSX_NOT_OPENED, 0)
             ELSE IF type = MSX_SPECIES THEN ret(0, NumSpecies)
             ELSE IF type = MSX_PATTERN THEN ret(0, Len(s.Pattern))
             ELSE ret(ERR_INVALID_OBJECT_TYPE, 0)

\* the walk of a pattern's list from its first item to item number period:
\* where Pattern[pat].current is left (0 when the walk ran off the list's end)
walkPattern(pattern, period) ==
    IF period >= 1 /\ period <= pattern.length THEN period ELSE NULL

MSXgetpatternvalue ==
    /\ CanCall
    /\ \E pat \in PatArgs, period \in PeriodArgs :
         LET s == NewCall(MSX)
             ret(st, errcode, value) ==
                 ReturnedOut("MSXgetpatternvalue", <<pat, period>>, st, errcode, <<value>>)
         IN  IF ~ s.ProjectOpened THEN ret(s, ERR_MSX_NOT_OPENED, RZero)
             ELSE IF pat < 1 \/ pat > Len(s.Pattern)
             THEN ret(s, ERR_INVALID_OBJECT_INDEX, RZero)
             ELSE IF period <= s.Pattern[pat].length
             THEN LET at == walkPattern(s.Pattern[pat], period)
                  IN  ret([s EXCEPT !.Pattern[pat].current = at], 0,
                          IF at # NULL THEN s.Pattern[pat].mult[at] ELSE RZero)
             ELSE ret(s, 0, RZero)

MSXsetpatternvalue ==
    /\ CanCall
    /\ \E pat \in PatArgs, period \in PeriodArgs, value \in LevelArgs :
         LET s == NewCall(MSX)
             ret(st, errcode) ==
                 ReturnedOut("MSXsetpatternvalue", <<pat, period, value>>, st, errcode, <<>>)
         IN  IF ~ s.ProjectOpened THEN ret(s, ERR_MSX_NOT_OPENED)
             ELSE IF pat < 1 \/ pat > Len(s.Pattern) THEN ret(s, ERR_INVALID_OBJECT_INDEX)
             ELSE IF period <= 0 \/ period > s.Pattern[pat].length
             THEN ret(s, ERR_INVALID_OBJECT_PARAMS)
             ELSE ret([s EXCEPT !.Pattern[pat].current = walkPattern(s.Pattern[pat], period),
                                !.Pattern[pat].mult[period] = value], 0)

\* the place of the source of a species in a node's list, 0 if it has none
sourceOf(list, species) ==
    IF \E i \in DOMAIN list : list[i].species = species
    THEN CHOOSE i \in DOMAIN list :
             /\ list[i].species = species
             /\ \A j \in 1..(i - 1) : list[j].species # species
    ELSE 0

MSXsetsource ==
    /\ CanCall
    /\ \E node \in IndexArgs, species \in IndexArgs, type \in SourceTypeArgs,
          level \in LevelArgs, pat \in PatArgs :
         LET s == NewCall(MSX)
             ret(st, errcode) ==
                 ReturnedOut("MSXsetsource", <<node, species, type, level, pat>>,
                             st, errcode, <<>>)
             pat0 == IF pat < 0 THEN 0 ELSE pat
             source == [type |-> type, species |-> species, c0 |-> level, pat |-> pat0]
         IN  IF ~ s.ProjectOpened THEN ret(s, ERR_MSX_NOT_OPENED)
             ELSE IF node < 1 \/ node > NNodes THEN ret(s, ERR_INVALID_OBJECT_INDEX)
             ELSE IF species < 1 \/ species > NumSpecies
             THEN ret(s, ERR_INVALID_OBJECT_INDEX)
             ELSE IF pat > Len(s.Pattern) THEN ret(s, ERR_INVALID_OBJECT_INDEX)
             ELSE IF type < MSX_NOSOURCE \/ type > MSX_FLOWPACED
             THEN ret(s, ERR_INVALID_OBJECT_PARAMS)
             ELSE IF Species[species].type # BULK THEN ret(s, ERR_INVALID_OBJECT_PARAMS)
             ELSE IF RLt(level, RZero) THEN ret(s, ERR_INVALID_OBJECT_PARAMS)
             ELSE LET i == sourceOf(s.sources[node], species)
                  IN  IF i = 0
                      THEN ret([s EXCEPT !.sources[node] = <<source>> \o @], 0)
                      ELSE ret([s EXCEPT !.sources[node][i] = source], 0)

\* the codes ENopen and ENclose of the EPANET toolkit come back with
ENcodes == {0, 302}

MSXENopen ==
    /\ CanCall
    /\ \E err \in ENcodes : Returned("MSXENopen", NewCall(MSX), err)

MSXENclose ==
    /\ CanCall
    /\ \E err \in ENcodes : Returned("MSXENclose", NewCall(MSX), err)

NoCall == [name |-> "", args |-> <<>>, out |-> <<>>, ret |-> 0, n |-> 0, misused |-> FALSE]

\* a process that runs a project of the router's scenarios
Init ==
    /\ env \in RouterEnvs
    /\ MSX = MSX0
    /\ call = NoCall

Next == MSXopen \/ MSXusehydfile \/ MSXinit \/ MSXstep \/ MSXclose

Spec == Init /\ [][Next]_vars

\* a process that runs a project of the chemistry scenarios
InitChem ==
    /\ env \in ChemEnvs
    /\ MSX = MSX0
    /\ call = NoCall

SpecChem == InitChem /\ [][Next]_vars

\* a process that runs a project of the hydraulics scenarios
InitHyd ==
    /\ env \in HydEnvs
    /\ MSX = MSX0
    /\ call = NoCall

SpecHyd == InitHyd /\ [][Next]_vars

-----------------------------------------------------------------------------
(* The sorter on its own: the flow directions of an opened project are set *)
(* by hydraulic events with any flows, as MSXqual_step does at each event  *)
(* after the first.                                                        *)

FlowValues == {RNeg(Qa), RZero, Qa}

SortEvent ==
    /\ call.n < MaxCalls
    /\ \E q \in [Links -> FlowValues] :
         Let(flowdirchanged([NewCall(MSX) EXCEPT !.Q = q]), LAMBDA f :
             IF f.flowchanged # 0
             THEN Let(sortNodes(f.st), LAMBDA s : Returned("sortNodes", s, s.obs.sortErr))
             ELSE Returned("sortNodes", f.st, 0))

InitSort ==
    /\ env = Env(ProjTracer, HydSteady, HEAP_AMPLE, TRUE)
    /\ MSX = [MSXqual_open(MSXproj_open(MSX0)) EXCEPT !.initialised = TRUE]
    /\ call = NoCall

NextSort == SortEvent

SpecSort == InitSort /\ [][NextSort]_vars

-----------------------------------------------------------------------------
(* Properties *)

\* the last call was a step of an initialised run, and no call so far has
\* met undefined behaviour
Stepped == call.name = "MSXstep" /\ ~ call.misused /\ ~ MSX.crashed /\ ~ MSX.fault

\* C1: MSXstep on a project that is open but was not initialised returns a
\* nonzero code and leaves the simulation times, the segment lists, the node
\* concentrations, the read position of the hydraulics file and the output
\* file as they were
C1_StepBeforeInit ==
    [][(call'.n = call.n + 1 /\ call'.name = "MSXstep"
            /\ MSX.ProjectOpened /\ ~ MSX.initialised)
        => (/\ call'.ret # 0
            /\ MSX'.Qtime = MSX.Qtime /\ MSX'.Htime = MSX.Htime /\ MSX'.Rtime = MSX.Rtime
            /\ MSX'.FirstSeg = MSX.FirstSeg /\ MSX'.LastSeg = MSX.LastSeg
            /\ MSX'.Seg = MSX.Seg
            /\ MSX'.NodeC = MSX.NodeC
            /\ MSX'.HydPos = MSX.HydPos
            /\ MSX'.OutFile = MSX.OutFile)]_vars

\* C2: after MSXinit and after every MSXstep no link holds more than
\* MaxSegments segments, whatever calls of init and step came before
C2_SegmentCap ==
    (call.name \in {"MSXinit", "MSXstep"} /\ ~ call.misused /\ ~ MSX.fault)
        => \A k \in Links : MSX.nsegs[k] <= MSX.MaxSegments

\* C3: after every hydraulic update the head of each flowing link's segment
\* list lies at the link's downstream node, also when the flow has reversed
\* by way of an event without flow
C3_ListOrder ==
    (Stepped /\ MSX.obs.hydReads > 0)
        => \A k \in Links :
              (MSX.obs.head[k] # 0 /\ MSX.FlowDir[k] # ZERO_FLOW)
                  => MSX.obs.head[k] = downstreamOf(MSX.FlowDir, k)

\* C4: after every completed transport sub-step the segment volumes of each
\* pipe add up to the pipe's volume, in whatever order the sorter has put the
\* nodes, the cycle fallback's order included
C4_VolumeBalance ==
    Stepped => MSX.obs.volumeLost = {}

\* C5: for every assignment of flow directions to the links, directed cycles
\* included, sortNodes ends with every node exactly once in SortedNodes[1..N]
\* and returns 0
C5_SortComplete ==
    MSX.obs.sortRuns > 0
        => (/\ call.ret = 0
            /\ MSX.obs.sortErr = 0
            /\ \A n \in Nodes : Cardinality({j \in Nodes : MSX.SortedNodes[j] = n}) = 1)

\* the sorter has run on the three-node loop with equal flows round it
C5_SortedCycle ==
    /\ MSX.obs.sortRuns > 0
    /\ MSX.FlowDir = <<POSITIVE, POSITIVE, NEGATIVE>>
    /\ \A k \in Links : RAbs(MSX.Q[k]) = Qa
    /\ {MSX.SortedNodes[j] : j \in Nodes} = Nodes

\* C6: when a segment allocation has failed, no null segment was dereferenced
\* or linked into a list, and the step returns ERR_MEMORY
C6_AllocFailure ==
    (MSX.OutOfMemory /\ ~ call.misused)
        => (/\ ~ MSX.fault
            /\ (call.name = "MSXstep" => call.ret = ERR_MEMORY))

\* a failed integration or Newton solve, or an invalid number, in the last call
NumericFailure ==
    MSX.obs.pipeErrs # {} \/ MSX.obs.invalid > 0 \/ MSX.obs.evalNaN

\* C7: a step in which a numeric failure occurs completes: every link is
\* reacted, every reaction is followed by advection and the nodal update, and
\* Qtime advances by the full step
C7_NumericWarning ==
    [][(call'.n = call.n + 1 /\ call'.name = "MSXstep" /\ ~ call'.misused
            /\ ~ MSX'.crashed /\ NumericFailure')
        => (/\ MSX'.obs.pipeErrs = {}
            /\ MSX'.obs.substeps = MSX'.obs.reacts
            /\ MSX'.Qtime = MSX.Qtime + MinI(MSX.Qstep, MSX.Dur - MSX.Qtime))]_vars

\* C8: whenever the interpreter's evaluation of a species or term expression
\* gives NaN, the caller is handed 0 and the math-error flag is raised
C8_NaNFlagged ==
    (call.name \in {"MSXinit", "MSXstep"} /\ ~ call.misused /\ MSX.obs.evalNaN)
        => ~ MSX.obs.nanUnflagged

\* C9: in a transport step the message recorded is that of the first invalid
\* result: later ones leave it as it is
C9_FirstErrorOnly ==
    (Stepped /\ MSX.obs.transports > 0 /\ MSX.mathError # 0)
        => MSX.mathErrorMsg = MSX.obs.firstMsg

\* C10: after MSXchem_react no species of any kind is negative in any pipe
\* segment, and every clamping to zero has raised the math-error flag
C10_NonNegative ==
    (Stepped /\ MSX.obs.reacts > 0)
        => (MSX.obs.negKinds = {} /\ ~ MSX.obs.clampUnflagged)


-----------------------------------------------------------------------------
(* The toolkit called on one project with arguments in and out of range *)

InitApi ==
    /\ env \in {Env(ProjTracer, HydSteady, HEAP_AMPLE, TRUE),
                 Env(ProjFirstOrder, HydSteady, HEAP_AMPLE, TRUE)}
    /\ MSX = MSX0
    /\ call = NoCall

NextApi ==
    /\ call.n < MaxApiCalls
    /\ \/ MSXENopen \/ MSXENclose \/ MSXopen \/ MSXusehydfile \/ MSXinit \/ MSXclose
       \/ MSXgetqual \/ MSXgetcount \/ MSXgetpatternvalue \/ MSXsetpatternvalue
       \/ MSXsetsource

SpecApi == InitApi /\ [][NextApi]_vars

-----------------------------------------------------------------------------
(* A client that runs projects through their lifecycle and, whenever no    *)
(* project is open, calls any operation of the toolkit                     *)

InitClosed ==
    /\ env = Env(ProjFirstOrder, HydSteady, HEAP_AMPLE, TRUE)
    /\ MSX = MSX0
    /\ call = NoCall

NextClosed ==
    \/ /\ ~ MSX.ProjectOpened
       /\ \/ MSXENopen \/ MSXENclose \/ MSXopen \/ MSXusehydfile \/ MSXinit \/ MSXstep
          \/ MSXclose \/ MSXgetqual \/ MSXgetcount \/ MSXgetpatternvalue
          \/ MSXsetpatternvalue \/ MSXsetsource
    \/ /\ MSX.ProjectOpened
       /\ (MSXusehydfile \/ MSXinit \/ MSXstep \/ MSXclose)

SpecClosed == InitClosed /\ [][NextClosed]_vars

-----------------------------------------------------------------------------
(* A client that gives node 1 a concentration source of species 1, with or *)
(* without the time pattern, runs the simulation and reads and writes the  *)
(* pattern's multipliers on the way                                        *)

\* a hydraulics file of thirty days, of which the first records are given
HydLong == [HydFileOf(<<Forward, Forward>>, HYDSTEP) EXCEPT !.dur = 30 * 24 * 3600]

\* whole runs: the calls of a run and MSXsolveQ, for hydraulics files with
\* events on and off the quality steps and for a long run
RunEnvs ==
    {Env(ProjTracer, h, HEAP_AMPLE, TRUE) : h \in {HydSteady, HydSparse, HydOffbeat, HydLong}}

InitRun == env \in RunEnvs /\ MSX = MSX0 /\ call = NoCall

NextRun == MSXopen \/ MSXusehydfile \/ MSXinit \/ MSXstep \/ MSXsolveQ

SpecRun == InitRun /\ [][NextRun]_vars

InitSrc ==
    /\ env = Env(ProjPattern, HydSteady, HEAP_AMPLE, TRUE)
    /\ MSX = MSX0
    /\ call = NoCall

NextSrc ==
    \/ MSXopen \/ MSXusehydfile \/ MSXinit \/ MSXstep
    \/ MSXsetsource /\ call'.args \in {<<1, 1, CONCEN, RInt(5), pat>> : pat \in {0, 1}}
    \/ MSXgetpatternvalue /\ call'.args[1] = 1
    \/ MSXsetpatternvalue /\ call'.args[1] = 1

SpecSrc == InitSrc /\ [][NextSrc]_vars

\* C11: while results are saved, every reporting time Rstart + i*Rstep that the
\* run has reached has given exactly one saved period: after a step that
\* returned 0 the period count, and the number of snapshots in the output
\* file, is the number of reporting times not after Qtime.
ReportTimesUpTo(qtime) ==
    {i \in 0..(qtime \div MSEC) : (MSX.Rstart + i * MSX.Rstep) * MSEC <= qtime}
C11_ReportPeriods ==
    (Stepped /\ call.ret = 0 /\ MSX.Saveflag # 0)
        => /\ MSX.Nperiods = Cardinality(ReportTimesUpTo(MSX.Qtime))
           /\ MSX.OutFile.results = MSX.Nperiods

\* the project's state, apart from what is only observed of the last call
ProjectState(s) == [s EXCEPT !.obs = Obs0]

\* call c, made in state s, names an object type the function does not know
\* or an index out of the range of the project's objects
BadArguments(c, s) ==
    \/ /\ c.name = "MSXgetqual"
       /\ \/ c.args[1] \notin {MSX_NODE, MSX_LINK}
          \/ c.args[3] \notin 1..NumSpecies
          \/ c.args[1] = MSX_NODE /\ c.args[2] \notin Nodes
          \/ c.args[1] = MSX_LINK /\ c.args[2] \notin Links
    \/ c.name = "MSXgetcount" /\ c.args[1] \notin {MSX_SPECIES, MSX_PATTERN}
    \/ /\ c.name \in {"MSXgetpatternvalue", "MSXsetpatternvalue"}
       /\ \/ c.args[1] \notin DOMAIN s.Pattern
          \/ c.args[2] \notin 1..s.Pattern[c.args[1]].length
    \/ /\ c.name = "MSXsetsource"
       /\ \/ c.args[1] \notin Nodes
          \/ c.args[2] \notin 1..NumSpecies
          \/ c.args[5] \notin 0..Len(s.Pattern)

\* C12: a getter or setter called on an open project with an unknown object
\* type or an index out of range returns a nonzero code and leaves the whole
\* project state as it was.
C12_BadArguments ==
    [][(call'.n = call.n + 1 /\ MSX.ProjectOpened /\ BadArguments(call', MSX))
        => (call'.ret # 0 /\ ProjectState(MSX') = ProjectState(MSX))]_vars

\* C13 as stated: every toolkit operation other than MSXopen, MSXclose and
\* MSXgeterror, called while no project is open, returns ERR_MSX_NOT_OPENED
\* and changes no project state.
C13_NotOpened ==
    [][(call'.n = call.n + 1 /\ ~ MSX.ProjectOpened
            /\ call'.name \notin {"MSXopen", "MSXclose", "MSXgeterror"})
        => (call'.ret = ERR_MSX_NOT_OPENED /\ ProjectState(MSX') = ProjectState(MSX))]_vars

\* C13 amended: the same of every operation on the MSX project, that is, other
\* than MSXopen, MSXclose, MSXgeterror and the two that pass the call on to
\* the EPANET toolkit, MSXENopen and MSXENclose; those two return EPANET's
\* code and change no MSX project state.
C13_NotOpenedMsx ==
    [][(call'.n = call.n + 1 /\ ~ MSX.ProjectOpened)
        => /\ call'.name \notin {"MSXopen", "MSXclose", "MSXgeterror"}
                 => ProjectState(MSX') = ProjectState(MSX)
           /\ call'.name \notin {"MSXopen", "MSXclose", "MSXgeterror",
                                 "MSXENopen", "MSXENclose"}
                 => call'.ret = ERR_MSX_NOT_OPENED
           /\ call'.name \in {"MSXENopen", "MSXENclose"} => call'.ret \in ENcodes]_vars

\* a step, and a setter with arguments in range, refused after a project was run and closed
C13_RefusedWhenClosed ==
    /\ ~ MSX.ProjectOpened /\ MSX.Qtime > 0
    /\ call.ret = ERR_MSX_NOT_OPENED
    /\ \/ call.name = "MSXstep"
       \/ call.name = "MSXsetsource" /\ call.args = <<1, 1, 0, RInt(5), 0>>

\* C14: MSXopen called while a project is open, in whatever state the
\* simulation is, returns ERR_MSX_OPENED and leaves the project's state as it was.
C14_OpenedOnce ==
    [][(call'.n = call.n + 1 /\ call'.name = "MSXopen" /\ MSX.ProjectOpened)
        => (call'.ret = ERR_MSX_OPENED /\ ProjectState(MSX') = ProjectState(MSX))]_vars

\* MSXopen refused in the middle of a simulation, whose clock it leaves alone
C14_OpenWhileStepping ==
    /\ call.name = "MSXopen" /\ call.ret = ERR_MSX_OPENED
    /\ MSX.ProjectOpened /\ MSX.initialised /\ MSX.Qtime > 0

\* the system with no project: both flags false, the segment pool released,
\* the hydraulics and output files closed and their handles null
Idle(s) ==
    /\ ~ s.ProjectOpened /\ ~ s.QualityOpened
    /\ s.QualPool # "live"
    /\ s.HydFile = NULL /\ ~ s.OutFile.open

-----------------------------------------------------------------------------
(* Reading the MSX input file (msxinp.c, msxutils.c, mathexpr.c).  A C     *)
(* string is the sequence of its characters, NUL standing for the          *)
(* terminating '\0'; C index i of a string is index i + 1 of its sequence. *)
(* The characters of the input are the letters below, '+' and '*': the     *)
(* lines read hold no digit, blank, parenthesis, '-', '/' or '^', so the   *)
(* branches of the expression parser for numbers, signs, parentheses,      *)
(* functions and exponents are never entered and are not written down.     *)

NUL == ""
LowerChars == <<"a", "b", "c", "d", "e", "f", "g", "h", "i", "j", "k", "l", "m",
                "n", "o", "p", "q", "r", "s", "t", "u", "v", "w", "x", "y", "z">>
UpperChars == <<"A", "B", "C", "D", "E", "F", "G", "H", "I", "J", "K", "L", "M",
                "N", "O", "P", "Q", "R", "S", "T", "U", "V", "W", "X", "Y", "Z">>
Range(f) == {f[i] : i \in DOMAIN f}

\* s[i] of the C string s
CharAt(s, i) == IF i < Len(s) THEN s[i + 1] ELSE NUL

UCHAR(x) ==
    IF x \in Range(LowerChars)
    THEN UpperChars[CHOOSE i \in DOMAIN LowerChars : LowerChars[i] = x]
    ELSE x

isLetter(c) == c \in Range(LowerChars) \cup Range(UpperChars) \cup {"_"}

isDigit(c) == c \in {"0", "1", "2", "3", "4", "5", "6", "7", "8", "9"}

RECURSIVE strcompExact(_, _, _)
strcompExact(s1, s2, i) ==
    IF CharAt(s1, i) # CharAt(s2, i) THEN 0
    ELSE IF CharAt(s1, i + 1) = NUL /\ CharAt(s2, i + 1) = NUL THEN 1
    ELSE strcompExact(s1, s2, i + 1)

\* the loop of MSXutils_strcomp (and of sametext) from index i on
RECURSIVE strcompFrom(_, _, _)
strcompFrom(s1, s2, i) ==
    IF UCHAR(CharAt(s1, i)) # UCHAR(CharAt(s2, i)) THEN 0
    ELSE IF CharAt(s1, i + 1) = NUL /\ CharAt(s2, i + 1) = NUL THEN 1
    ELSE strcompFrom(s1, s2, i + 1)

\* MSXutils_strcomp without UCHAR
MSXutils_strcompCased(s1, s2) == strcompExact(s1, s2, 0)

MSXutils_strcomp(s1, s2) == strcompFrom(s1, s2, 0)

sametext(s1, s2) == strcompFrom(s1, s2, 0)

RECURSIVE skipBlanks(_, _)
skipBlanks(str, i) ==
    IF CharAt(str, i) = " " THEN skipBlanks(str, i + 1) ELSE i

RECURSIVE matchFrom(_, _, _, _)
matchFrom(str, substr, i, j) ==
    IF CharAt(substr, j) = NUL THEN 1
    ELSE IF CharAt(str, i) = NUL \/ UCHAR(CharAt(str, i)) # UCHAR(CharAt(substr, j)) THEN 0
    ELSE matchFrom(str, substr, i + 1, j + 1)

\* whether str, after its leading blanks, begins with substr (case ignored)
MSXutils_match(str, substr) ==
    IF CharAt(substr, 0) = NUL THEN 0
    ELSE matchFrom(str, substr, skipBlanks(str, 0), 0)

\* index of the first keyword that matches s, or -1; keyword[i] of the C
\* array is keyword[i + 1] here
RECURSIVE findmatchFrom(_, _, _)
findmatchFrom(s, keyword, i) ==
    IF i >= Len(keyword) THEN -1
    ELSE IF MSXutils_match(s, keyword[i + 1]) = 1 THEN i
    ELSE findmatchFrom(s, keyword, i + 1)

MSXutils_findmatch(s, keyword) == findmatchFrom(s, keyword, 0)

HydVarWords == << <<>>, <<"D">>, <<"Q">>, <<"U">>, <<"R", "e">>, <<"U", "s">>,
                 <<"F", "f">>, <<"A", "v">>, <<"K", "c">>, <<"L", "e", "n">> >>
ExprTypeWords == << <<>>, <<"R", "A", "T", "E">>, <<"F", "O", "R", "M", "U", "L", "A">>,
                   <<"E", "Q", "U", "I", "L">> >>
MathFunc == << <<"C", "O", "S">>, <<"S", "I", "N">>, <<"T", "A", "N">>, <<"C", "O", "T">>,
              <<"A", "B", "S">>, <<"S", "G", "N">>, <<"S", "Q", "R", "T">>,
              <<"L", "O", "G">>, <<"E", "X", "P">>, <<"A", "S", "I", "N">>,
              <<"A", "C", "O", "S">>, <<"A", "T", "A", "N">>, <<"A", "C", "O", "T">>,
              <<"S", "I", "N", "H">>, <<"C", "O", "S", "H">>, <<"T", "A", "N", "H">>,
              <<"C", "O", "T", "H">>, <<"L", "O", "G", "1", "0">>,
              <<"S", "T", "E", "P">> >>
BULKWord == <<"B", "U", "L", "K">>
WALLWord == <<"W", "A", "L", "L">>
PARAMWord == <<"P", "A", "R", "A", "M">>
CONSTWord == <<"C", "O", "N", "S", "T">>

\* the project that MSXproj_open has before it reads the file: no object of
\* any type (setDefaults, createHashTables)
Inp0 ==
    [ID |-> [t \in {SPECIES, TERM, PARAMETER, CONST} |-> <<>>],
     Species |-> <<>>, Term |-> <<>>, TermArray |-> {},
     counted |-> FALSE, read |-> FALSE, chem |-> FALSE, errcode |-> 0,
     ProjectOpened |-> FALSE, QualityOpened |-> FALSE]

Nobjects(s, type) == Len(s.ID[type])

\* index of the object of this type with this ID, or -1
MSXproj_findObject(s, type, id) ==
    IF \E k \in DOMAIN s.ID[type] : s.ID[type][k] = id
    THEN CHOOSE k \in DOMAIN s.ID[type] : s.ID[type][k] = id
    ELSE -1

\* 0 if the ID is there already, else the ID is entered with index n
MSXproj_addObject(s, type, id, n) ==
    IF MSXproj_findObject(s, type, id) > 0 THEN [st |-> s, result |-> 0]
    ELSE [st |-> [s EXCEPT !.ID[type] = Append(@, id)], result |-> 1]

RECURSIVE reservedFrom(_, _)
reservedFrom(id, i) ==
    IF i >= Len(HydVarWords) THEN FALSE
    ELSE IF MSXutils_strcomp(id, HydVarWords[i + 1]) = 1 THEN TRUE
    ELSE reservedFrom(id, i + 1)

checkID(s, id) ==
    IF reservedFrom(id, 1) THEN ERR_RESERVED_NAME
    ELSE IF \/ MSXproj_findObject(s, SPECIES, id) > 0
            \/ MSXproj_findObject(s, TERM, id) > 0
            \/ MSXproj_findObject(s, PARAMETER, id) > 0
            \/ MSXproj_findObject(s, CONST, id) > 0 THEN ERR_DUP_NAME
    ELSE 0

\* checks the ID and enters it as the next object of the type
addObjectOf(s, type, id) ==
    LET errcode == checkID(s, id)
    IN  IF errcode # 0 THEN [st |-> s, errcode |-> errcode]
        ELSE [st |-> MSXproj_addObject(s, type, id, Nobjects(s, type) + 1).st, errcode |-> 0]

addSpecies(s, Tok) ==
    IF Len(Tok) < 2 THEN [st |-> s, errcode |-> ERR_ITEMS]
    ELSE addObjectOf(s, SPECIES, Tok[2])

addCoeff(s, Tok) ==
    IF Len(Tok) < 2 THEN [st |-> s, errcode |-> ERR_ITEMS]
    ELSE IF MSXutils_match(Tok[1], PARAMWord) = 1 THEN addObjectOf(s, PARAMETER, Tok[2])
    ELSE IF MSXutils_match(Tok[1], CONSTWord) = 1 THEN addObjectOf(s, CONST, Tok[2])
    ELSE [st |-> s, errcode |-> ERR_KEYWORD]

addTerm(s, id) == addObjectOf(s, TERM, id)

\* the first pass over the lines of the file, from line k on; a line is the
\* section it stands in and its tokens
RECURSIVE countLines(_, _, _, _)
countLines(s, file, k, errsum) ==
    IF k > Len(file) THEN [st |-> s, errsum |-> errsum]
    ELSE LET line == file[k]
             r == IF line.sect = s_SPECIES THEN addSpecies(s, line.Tok)
                  ELSE IF line.sect = s_COEFF THEN addCoeff(s, line.Tok)
                  ELSE IF line.sect = s_TERM THEN addTerm(s, line.Tok[1])
                  ELSE [st |-> s, errcode |-> 0]
         IN  countLines(r.st, file, k + 1, IF r.errcode # 0 THEN errsum + 1 ELSE errsum)

\* code of the variable named id in a math expression, or -1
getVariableCode(s, id) ==
    LET sp == MSXproj_findObject(s, SPECIES, id)
        te == MSXproj_findObject(s, TERM, id)
        pa == MSXproj_findObject(s, PARAMETER, id)
        co == MSXproj_findObject(s, CONST, id)
        hy == MSXutils_findmatch(id, HydVarWords)
    IN  IF sp >= 1 THEN sp
        ELSE IF te >= 1 THEN Nobjects(s, SPECIES) + te
        ELSE IF pa >= 1 THEN Nobjects(s, SPECIES) + Nobjects(s, TERM) + pa
        ELSE IF co >= 1 THEN Nobjects(s, SPECIES) + Nobjects(s, TERM)
                                 + Nobjects(s, PARAMETER) + co
        ELSE IF hy >= 1 THEN Nobjects(s, SPECIES) + Nobjects(s, TERM)
                                 + Nobjects(s, PARAMETER) + Nobjects(s, CONST) + hy
        ELSE -1

\* the letters and digits of S from Pos on, and the position of the last of them
RECURSIVE getToken(_, _, _)
getToken(S, Pos, Token) ==
    IF Pos <= Len(S) /\ (isLetter(CharAt(S, Pos)) \/ isDigit(CharAt(S, Pos)))
    THEN getToken(S, Pos + 1, Append(Token, CharAt(S, Pos)))
    ELSE [Token |-> Token, Pos |-> Pos - 1]

RECURSIVE mathFuncFrom(_, _)
mathFuncFrom(Token, i) ==
    IF i >= Len(MathFunc) THEN 0
    ELSE IF sametext(MathFunc[i + 1], Token) = 1 THEN i + 10
    ELSE mathFuncFrom(Token, i + 1)

getMathFunc(Token) == mathFuncFrom(Token, 0)

getOperand(c) ==
    IF c = "+" THEN 3 ELSE IF c = "*" THEN 5 ELSE 0

\* the lexeme at Pos: its code (0 none or end, 3 '+', 5 '*', 8 variable,
\* 10.. function), the variable's code, and the position after it
getLex(s, S, Pos) ==
    IF Pos >= Len(S) THEN [n |-> 0, Ivar |-> -1, Pos |-> Pos]
    ELSE LET op == getOperand(CharAt(S, Pos))
         IN  IF op # 0 \/ ~ isLetter(CharAt(S, Pos))
             THEN [n |-> op, Ivar |-> -1, Pos |-> Pos + 1]
             ELSE LET t == getToken(S, Pos, <<>>)
                      f == getMathFunc(t.Token)
                      Ivar == getVariableCode(s, t.Token)
                  IN  [n |-> IF f # 0 THEN f ELSE IF Ivar >= 0 THEN 8 ELSE 0,
                       Ivar |-> Ivar, Pos |-> t.Pos + 1]

\* getTree, getOp and getSingleOp over the lexemes of S from Pos on: operands
\* (variables) separated by '+' and '*', a leading '+' skipped; ivars are the
\* variables of the operands so far.  Err, once set, leaves no expression.
RECURSIVE getTree(_, _, _, _, _, _)
getTree(s, S, Pos, operand, PrevLex, ivars) ==
    Let(getLex(s, S, Pos), LAMBDA lex :
        IF operand
        THEN IF PrevLex = 0 /\ lex.n = 3 THEN getTree(s, S, lex.Pos, TRUE, 3, ivars)
             ELSE IF lex.n = 8 THEN getTree(s, S, lex.Pos, FALSE, 8, Append(ivars, lex.Ivar))
             ELSE [Err |-> 1, ivars |-> <<>>]
        ELSE IF lex.n = 0 THEN [Err |-> 0, ivars |-> ivars]
             ELSE IF lex.n \in {3, 5} THEN getTree(s, S, lex.Pos, TRUE, lex.n, ivars)
             ELSE [Err |-> 1, ivars |-> <<>>])

\* the expression of the formula, or NoExpr for the NULL of a formula in error
mathexpr_create(s, formula) ==
    LET tree == getTree(s, formula, 0, TRUE, 0, <<>>)
    IN  IF tree.Err = 0 THEN tree.ivars ELSE NoExpr

RECURSIVE strcat(_, _)
strcat(Tok, j) ==
    IF j > Len(Tok) THEN <<>> ELSE Tok[j] \o strcat(Tok, j + 1)

parseSpecies(s, Tok) ==
    LET i == IF Len(Tok) < 2 THEN -1 ELSE MSXproj_findObject(s, SPECIES, Tok[2])
        sp(type) == [id |-> Tok[2], type |-> type,
                     pipeExprType |-> NO_EXPR, pipeExpr |-> NoExpr,
                     tankExprType |-> NO_EXPR, tankExpr |-> NoExpr]
    IN  IF Len(Tok) < 3 THEN [st |-> s, errcode |-> ERR_ITEMS]
        ELSE IF i <= 0 THEN [st |-> s, errcode |-> ERR_NAME]
        ELSE IF MSXutils_match(Tok[1], BULKWord) = 1
        THEN [st |-> [s EXCEPT !.Species[i] = sp(BULK)], errcode |-> 0]
        ELSE IF MSXutils_match(Tok[1], WALLWord) = 1
        THEN [st |-> [s EXCEPT !.Species[i] = sp(WALL)], errcode |-> 0]
        ELSE [st |-> s, errcode |-> ERR_KEYWORD]

parseCoeff(s, Tok) ==
    IF Len(Tok) < 2 THEN [st |-> s, errcode |-> 0]
    ELSE IF MSXutils_match(Tok[1], PARAMWord) = 1
    THEN [st |-> s, errcode |-> IF MSXproj_findObject(s, PARAMETER, Tok[2]) <= 0
                                THEN ERR_NAME ELSE 0]
    ELSE IF MSXutils_match(Tok[1], CONSTWord) = 1
    THEN [st |-> s, errcode |-> IF MSXproj_findObject(s, CONST, Tok[2]) <= 0
                                THEN ERR_NAME ELSE 0]
    ELSE [st |-> s, errcode |-> ERR_KEYWORD]

\* the term's expression; every token after the name that is itself the
\* name of a term is entered in row i of TermArray
parseTerm(s, Tok) ==
    IF Len(Tok) < 2 THEN [st |-> s, errcode |-> 0]
    ELSE LET i == MSXproj_findObject(s, TERM, Tok[1])
             refs == {MSXproj_findObject(s, TERM, Tok[j]) : j \in 2..Len(Tok)}
             s1 == [s EXCEPT !.TermArray = @ \cup {<<i, k>> : k \in {r \in refs : r > 0}}]
             expr == mathexpr_create(s, strcat(Tok, 2))
         IN  IF expr = NoExpr THEN [st |-> s1, errcode |-> ERR_MATH_EXPR]
             ELSE [st |-> [s1 EXCEPT !.Term[i] = [id |-> Tok[1], expr |-> expr]],
                   errcode |-> 0]

parseExpression(s, Tok, classType) ==
    LET k == IF Len(Tok) < 1 THEN -1 ELSE MSXutils_findmatch(Tok[1], ExprTypeWords)
        i == IF Len(Tok) < 2 THEN -1 ELSE MSXproj_findObject(s, SPECIES, Tok[2])
        expr == mathexpr_create(s, strcat(Tok, 3))
    IN  IF Len(Tok) < 3 THEN [st |-> s, errcode |-> ERR_ITEMS]
        ELSE IF k < 0 THEN [st |-> s, errcode |-> ERR_KEYWORD]
        ELSE IF i < 1 THEN [st |-> s, errcode |-> ERR_NAME]
        ELSE IF classType = LINK /\ s.Species[i].pipeExprType # NO_EXPR
        THEN [st |-> s, errcode |-> ERR_DUP_EXPR]
        ELSE IF classType = TANK /\ s.Species[i].tankExprType # NO_EXPR
        THEN [st |-> s, errcode |-> ERR_DUP_EXPR]
        ELSE IF expr = NoExpr THEN [st |-> s, errcode |-> ERR_MATH_EXPR]
        ELSE IF classType = LINK
        THEN [st |-> [s EXCEPT !.Species[i].pipeExpr = expr,
                               !.Species[i].pipeExprType = k], errcode |-> 0]
        ELSE [st |-> [s EXCEPT !.Species[i].tankExpr = expr,
                               !.Species[i].tankExprType = k], errcode |-> 0]

parseLine(s, line) ==
    IF line.sect = s_SPECIES THEN parseSpecies(s, line.Tok)
    ELSE IF line.sect = s_COEFF THEN parseCoeff(s, line.Tok)
    ELSE IF line.sect = s_TERM THEN parseTerm(s, line.Tok)
    ELSE IF line.sect = s_PIPE THEN parseExpression(s, line.Tok, LINK)
    ELSE IF line.sect = s_TANK THEN parseExpression(s, line.Tok, TANK)
    ELSE [st |-> s, errcode |-> 0]

\* whether term istar is on a path of TermArray from term i; marked is row 0
\* of TermArray, the terms already traced.  The loop over j, from j on.
RECURSIVE traceTermPath(_, _, _, _, _)
RECURSIVE traceTermLoop(_, _, _, _, _, _)
traceTermLoop(s, i, j, istar, n, marked) ==
    IF j > n THEN [found |-> 0, marked |-> marked]
    ELSE IF <<i, j>> \notin s.TermArray THEN traceTermLoop(s, i, j + 1, istar, n, marked)
    ELSE IF j = istar THEN [found |-> 1, marked |-> marked]
    ELSE LET r == traceTermPath(s, j, istar, n, marked)
         IN  IF r.found = 1 THEN r
             ELSE traceTermLoop(s, i, j + 1, istar, n, r.marked)

traceTermPath(s, i, istar, n, marked) ==
    IF i \in marked THEN [found |-> 0, marked |-> marked]
    ELSE traceTermLoop(s, i, 1, istar, n, marked \cup {i})

\* 1 if a term from i on, and before the last, is on a path from itself
RECURSIVE cyclicFrom(_, _, _)
cyclicFrom(s, i, n) ==
    IF ~ (i < n) THEN 0
    ELSE IF traceTermPath(s, i, i, n, {}).found = 1 THEN 1
    ELSE cyclicFrom(s, i + 1, n)

checkCyclicTerms(s) == cyclicFrom(s, 1, Nobjects(s, TERM))

\* the second pass over the lines of the file, from line k on
RECURSIVE readLines(_, _, _, _)
readLines(s, file, k, errsum) ==
    IF k > Len(file) THEN [st |-> s, errsum |-> errsum]
    ELSE LET r == parseLine(s, file[k])
         IN  readLines(r.st, file, k + 1, IF r.errcode > 0 THEN errsum + 1 ELSE errsum)

\* createObjects: the arrays of species and terms, calloc'ed
createObjects(s) ==
    [s EXCEPT !.Species = [i \in 1..Nobjects(s, SPECIES) |->
                              [id |-> <<>>, type |-> BULK,
                               pipeExprType |-> NO_EXPR, pipeExpr |-> NoExpr,
                               tankExprType |-> NO_EXPR, tankExpr |-> NoExpr]],
              !.Term = [i \in 1..Nobjects(s, TERM) |-> [id |-> <<>>, expr |-> NoExpr]]]

\* The files read.  Species x is declared in each.  TermFiles declare the
\* first one to MaxTerms of the terms a, b, c, d, the expression of each being
\* x added to x or to one of a, b, c, d, written as three tokens or as one.
Word(c) == <<c>>
RATEWord == <<"R", "A", "T", "E">>
UnitsWord == <<"M", "G">>
SpeciesLine(id) == [sect |-> s_SPECIES, Tok |-> <<BULKWord, id, UnitsWord>>]
TermNames == <<Word("a"), Word("b"), Word("c"), Word("d")>>
TermTexts ==
    UNION {{<<Word("x"), Word("+"), ref>>, <<Word("x") \o Word("+") \o ref>>}
           : ref \in {Word("x")} \cup Range(TermNames)}
TermLine(i, text) == [sect |-> s_TERM, Tok |-> <<TermNames[i]>> \o text]
MaxTerms == 3
TermFiles ==
    UNION {{<<SpeciesLine(Word("x"))>> \o [i \in 1..n |-> TermLine(i, texts[i])]
            : texts \in [1..n -> TermTexts]} : n \in 1..MaxTerms}

\* the names declared and referred to: every string of one or two of
\* NameChars, and some about the longest reserved name
NameChars == {"D", "d", "R", "r", "e", "U", "s", "x"}
Names ==
    {<<c>> : c \in NameChars} \cup {<<c, d>> : c, d \in NameChars}
    \cup {<<"L", "e", "n">>, <<"l", "e", "n">>, <<"L", "e">>, <<"L", "e", "n", "x">>}
PipeLine(text) == [sect |-> s_PIPE, Tok |-> <<RATEWord, Word("x")>> \o text]
DeclLines(id) ==
    {[sect |-> s_SPECIES, Tok |-> <<BULKWord, id, UnitsWord>>],
     [sect |-> s_SPECIES, Tok |-> <<WALLWord, id, UnitsWord>>],
     [sect |-> s_COEFF, Tok |-> <<PARAMWord, id>>],
     [sect |-> s_COEFF, Tok |-> <<CONSTWord, id>>],
     [sect |-> s_TERM, Tok |-> <<id, Word("x")>>]}
\* one more object declared, and the pipe expression of x referring to x, to
\* that object, or to its name in the other order of token
DeclFiles ==
    UNION {{<<SpeciesLine(Word("x")), decl, PipeLine(text)>>
            : decl \in DeclLines(id),
              text \in {<<Word("x")>>, <<id>>, <<Word("x"), Word("*"), id>>}}
           : id \in Names}
\* the pipe expression of x referring to a name that may be no object's
ExprFiles ==
    {<<SpeciesLine(Word("x")), PipeLine(text)>>
     : text \in UNION {{<<id>>, <<Word("x") \o Word("*") \o id>>} : id \in Names}}

\* the first one to MaxSpecies of the species x, y, z, each a bulk or a wall
\* species, with or without a pipe expression, and with or without a tank
\* expression, which is not that of the pipe
SpeciesNames == <<Word("x"), Word("y"), Word("z")>>
FORMULAWord == <<"F", "O", "R", "M", "U", "L", "A">>
MaxSpecies == 2
SpeciesChoices == {BULKWord, WALLWord} \X {<<>>, RATEWord} \X {<<>>, RATEWord, FORMULAWord}
ExprLines(sect, id, word, text) ==
    IF word = <<>> THEN <<>> ELSE <<[sect |-> sect, Tok |-> <<word, id>> \o text]>>
RECURSIVE LinesFor(_, _, _)
LinesFor(choice, n, sect) ==
    IF n = 0 THEN <<>>
    ELSE LinesFor(choice, n - 1, sect) \o
         (IF sect = s_SPECIES
          THEN <<[sect |-> s_SPECIES, Tok |-> <<choice[n][1], SpeciesNames[n], UnitsWord>>]>>
          ELSE IF sect = s_PIPE
          THEN ExprLines(s_PIPE, SpeciesNames[n], choice[n][2], <<SpeciesNames[n]>>)
          ELSE ExprLines(s_TANK, SpeciesNames[n], choice[n][3],
                         <<SpeciesNames[n], Word("*"), SpeciesNames[n]>>))
ChemFiles ==
    UNION {{LinesFor(choice, n, s_SPECIES) \o LinesFor(choice, n, s_PIPE)
                \o LinesFor(choice, n, s_TANK)
            : choice \in [1..n -> SpeciesChoices]} : n \in 1..MaxSpecies}

InpFiles == TermFiles \cup DeclFiles \cup ExprFiles \cup ChemFiles

InpReturned(name, s, errcode) ==
    /\ MSX' = [s EXCEPT !.errcode = errcode]
    /\ call' = [NoCall EXCEPT !.name = name, !.ret = errcode, !.n = call.n + 1]
    /\ UNCHANGED env

\* the first pass: the objects of the file are counted and their IDs entered
MSXinp_countMsxObjects ==
    /\ ~ MSX.counted
    /\ LET r == countLines(MSX, env.file, 1, 0)
       IN  InpReturned("MSXinp_countMsxObjects", [r.st EXCEPT !.counted = TRUE],
                       IF r.errsum > 0 THEN ERR_MSX_INPUT ELSE 0)

\* the second pass, which MSXproj_open makes when the first found no error:
\* the objects created, the lines parsed, the terms checked for cycles
MSXinp_readMsxData ==
    /\ MSX.counted /\ ~ MSX.read /\ ~ (MSX.errcode > CALL_LIMIT)
    /\ LET r == readLines(createObjects(MSX), env.file, 1, 0)
           errsum == r.errsum + checkCyclicTerms(r.st)
       IN  InpReturned("MSXinp_readMsxData", [r.st EXCEPT !.read = TRUE],
                       IF errsum > 0 THEN ERR_MSX_INPUT ELSE 0)

\* the species with an expression of one of the types, in pipes or in tanks
NumExpr(s, class, types) ==
    Cardinality({m \in DOMAIN s.Species :
                    (IF class = LINK THEN s.Species[m].pipeExprType
                                     ELSE s.Species[m].tankExprType) \in types})

\* every species is given its pipe expression as its tank expression
setTankChemistry(s) ==
    [s EXCEPT !.Species = [m \in DOMAIN s.Species |->
                              [s.Species[m] EXCEPT
                                  !.tankExpr = s.Species[m].pipeExpr,
                                  !.tankExprType = s.Species[m].pipeExprType]]]

\* the count of the expressions by setSpeciesChemistry, the tank chemistry
\* taken from the pipes if no tank expression was counted, and the check of
\* the counts; memory being there, the solvers then open
MSXchem_open(s) ==
    LET NumSpecies_ == Nobjects(s, SPECIES)
        numPipeExpr == NumExpr(s, LINK, {RATE}) + NumExpr(s, LINK, {FORMULA})
                           + NumExpr(s, LINK, {EQUIL})
        numTankExpr0 == NumExpr(s, TANK, {RATE}) + NumExpr(s, TANK, {FORMULA})
                           + NumExpr(s, TANK, {EQUIL})
        s1 == IF numTankExpr0 = 0 THEN setTankChemistry(s) ELSE s
        numTankExpr == IF numTankExpr0 = 0 THEN numPipeExpr ELSE numTankExpr0
        numBulkSpecies == Cardinality({m \in DOMAIN s.Species : s.Species[m].type = BULK})
    IN  [st |-> s1,
         errcode |-> IF numPipeExpr # NumSpecies_ THEN ERR_NUM_PIPE_EXPR
                     ELSE IF numTankExpr # numBulkSpecies THEN ERR_NUM_TANK_EXPR
                     ELSE 0]

\* MSXqual_open, which MSXopen calls when the file was read without error,
\* begins by opening the chemistry system
MSXchem_openCalled ==
    /\ MSX.read /\ MSX.errcode = 0 /\ ~ MSX.chem
    /\ LET r == MSXchem_open(MSX)
       IN  InpReturned("MSXchem_open", [r.st EXCEPT !.chem = TRUE], r.errcode)

InitInp ==
    /\ env \in [file : InpFiles]
    /\ MSX = Inp0
    /\ call = NoCall

NextInp == MSXinp_countMsxObjects \/ MSXinp_readMsxData \/ MSXchem_openCalled

SpecInp == InitInp /\ [][NextInp]_vars

-----------------------------------------------------------------------------
(* MSXopen on an input file (msxtoolkit.c), and a toolkit call after it *)

MaxOpenCalls == 3

\* opens the project: the defaults, the two passes over the file (the second
\* is skipped by CALL when the first found an error), and the opened flag
\* when no error was found
MSXproj_openFile(file) ==
    Let(countLines(Inp0, file, 1, 0), LAMBDA c :
        IF c.errsum > 0
        THEN [st |-> [c.st EXCEPT !.counted = TRUE], errcode |-> ERR_MSX_INPUT]
        ELSE Let(readLines(createObjects(c.st), file, 1, 0), LAMBDA r :
             Let(IF r.errsum + checkCyclicTerms(r.st) > 0 THEN ERR_MSX_INPUT ELSE 0,
                 LAMBDA errcode :
                 [st |-> [r.st EXCEPT !.counted = TRUE, !.read = TRUE,
                                      !.ProjectOpened = (errcode = 0)],
                  errcode |-> errcode])))

\* opens the water quality system: the chemistry system first; memory being
\* there, the quality system is then opened
MSXqual_openFile(s) ==
    Let(MSXchem_open(s), LAMBDA r :
        [st |-> [r.st EXCEPT !.chem = TRUE, !.QualityOpened = (r.errcode = 0)],
         errcode |-> r.errcode])

MSXopenFile ==
    /\ call.n < MaxOpenCalls
    /\ IF MSX.ProjectOpened THEN InpReturned("MSXopen", MSX, ERR_MSX_OPENED)
       ELSE Let(MSXproj_openFile(env.file), LAMBDA p :
            IF p.errcode > CALL_LIMIT THEN InpReturned("MSXopen", p.st, p.errcode)
            ELSE Let(MSXqual_openFile(p.st), LAMBDA q :
                     InpReturned("MSXopen", q.st, q.errcode)))

MSXgetcountFile ==
    /\ call.n < MaxOpenCalls
    /\ \E type \in {MSX_SPECIES, MSX_NODE} :
         IF ~ MSX.ProjectOpened THEN InpReturned("MSXgetcount", MSX, ERR_MSX_NOT_OPENED)
         ELSE IF type = MSX_SPECIES THEN InpReturned("MSXgetcount", MSX, 0)
         ELSE InpReturned("MSXgetcount", MSX, ERR_INVALID_OBJECT_TYPE)

InitOpen ==
    /\ env \in [file : ChemFiles \cup ExprFiles]
    /\ MSX = Inp0
    /\ call = NoCall

NextOpen == MSXopenFile \/ MSXgetcountFile

SpecOpen == InitOpen /\ [][NextOpen]_vars

-----------------------------------------------------------------------------
(* What the lines of a file say, read off their text *)

\* the names in a text: its longest runs of letters and digits
Words(S) ==
    LET alnum(i) == isLetter(S[i]) \/ isDigit(S[i])
    IN  {SubSeq(S, i, j) : <<i, j>> \in
            {p \in (DOMAIN S) \X (DOMAIN S) :
                /\ p[1] <= p[2]
                /\ \A m \in p[1]..p[2] : alnum(m)
                /\ p[1] = 1 \/ ~ alnum(p[1] - 1)
                /\ p[2] = Len(S) \/ ~ alnum(p[2] + 1)}}

LinesOf(file, sects) == {k \in DOMAIN file : file[k].sect \in sects}

\* the name a line of the species, coefficients or terms section declares
DeclaredName(line) == IF line.sect = s_TERM THEN line.Tok[1] ELSE line.Tok[2]

\* the text of the expression of a line of the terms, pipes or tanks section
ExprText(line) == strcat(line.Tok, IF line.sect = s_TERM THEN 2 ELSE 3)

\* the term of line k refers to the term of line m
RefersTo(file, k, m) == DeclaredName(file[m]) \in Words(ExprText(file[k]))

\* the lines of terms that line k's term refers to through at most n terms
RECURSIVE Reaches(_, _, _)
Reaches(file, k, n) ==
    LET direct == {m \in LinesOf(file, {s_TERM}) : RefersTo(file, k, m)}
    IN  IF n = 0 THEN direct
        ELSE direct \cup UNION {Reaches(file, m, n - 1) : m \in direct}

CyclicTerm(file) ==
    \E k \in LinesOf(file, {s_TERM}) : k \in Reaches(file, k, Len(file))

\* a hydraulic-variable name, in any case of its letters
IsReserved(id) ==
    \E w \in Range(HydVarWords) :
        /\ w # <<>> /\ Len(w) = Len(id)
        /\ \A i \in DOMAIN w : UCHAR(w[i]) = UCHAR(id[i])

\* C16: whenever a term of the file refers to itself, directly or through
\* other terms, whichever term it is and however its expression is split into
\* tokens, reading the file ends with the input error.
C16_CyclicTerms ==
    (MSX.read /\ CyclicTerm(env.file)) => MSX.errcode = ERR_MSX_INPUT

\* C17: no object is ever entered under a reserved name, and a file that
\* declares a species, coefficient or term of a reserved name (in any case of
\* its letters) ends the first pass with the input error.
C17_ReservedNames ==
    /\ \A t \in DOMAIN MSX.ID : \A k \in DOMAIN MSX.ID[t] : ~ IsReserved(MSX.ID[t][k])
    /\ (MSX.counted /\ \E k \in LinesOf(env.file, {s_SPECIES, s_COEFF, s_TERM}) :
                            IsReserved(DeclaredName(env.file[k])))
          => MSX.errcode = ERR_MSX_INPUT

\* a parameter named "re" was refused
C17_LowerCaseRefused ==
    /\ MSX.counted /\ MSX.errcode = ERR_MSX_INPUT
    /\ \E k \in DOMAIN env.file :
          env.file[k].sect = s_COEFF /\ env.file[k].Tok = <<PARAMWord, <<"r", "e">> >>
    /\ MSX.ID[PARAMETER] = <<>>

\* C18: a file read without error has, in its expressions, only names of
\* declared objects and hydraulic-variable names.
C18_UnknownRejected ==
    (MSX.read /\ MSX.errcode = 0)
        => \A k \in LinesOf(env.file, {s_TERM, s_PIPE, s_TANK}) :
              \A w \in Words(ExprText(env.file[k])) :
                  \/ \E t \in DOMAIN MSX.ID : w \in Range(MSX.ID[t])
                  \/ IsReserved(w)

\* the file has a line of the tanks section for the species
TankSupplied(file, id) == \E k \in LinesOf(file, {s_TANK}) : file[k].Tok[2] = id

\* C19: when the chemistry system has opened, every species for which the
\* file supplies no tank expression has its pipe expression, and the kind of
\* it, as its tank expression - whether the file supplies tank expressions
\* for no species or for some.
C19_TankInherited ==
    (MSX.chem /\ MSX.errcode = 0)
        => \A m \in DOMAIN MSX.Species :
              ~ TankSupplied(env.file, MSX.Species[m].id)
                  => /\ MSX.Species[m].tankExprType = MSX.Species[m].pipeExprType
                     /\ MSX.Species[m].tankExpr = MSX.Species[m].pipeExpr

\* C20: MSXchem_open returns ERR_NUM_PIPE_EXPR if and only if some species has
\* no pipe expression; otherwise ERR_NUM_TANK_EXPR if and only if some bulk
\* species is left, after the inheritance, without a tank expression; and
\* otherwise 0.
C20_ExprCounts ==
    MSX.chem
        => MSX.errcode =
              IF \E m \in DOMAIN MSX.Species : MSX.Species[m].pipeExprType = NO_EXPR
              THEN ERR_NUM_PIPE_EXPR
              ELSE IF \E m \in DOMAIN MSX.Species :
                         /\ MSX.Species[m].type = BULK
                         /\ MSX.Species[m].tankExprType = NO_EXPR
              THEN ERR_NUM_TANK_EXPR
              ELSE 0

\* C21: whenever a source's strength is computed during a step, the cursor of
\* its pattern stands at the current pattern interval, and the multiplier
\* used is the pattern's entry of index floor((Qtime + Pstart) / Pstep) mod
\* length - whatever calls of init, step, MSXgetpatternvalue and
\* MSXsetpatternvalue came before.
C21_PatternCursor ==
    (call.name = "MSXstep" /\ ~ call.misused /\ ~ MSX.fault)
        => \A e \in MSX.obs.srcEval :
              /\ e.current = e.k + 1
              /\ e.f = MSX.Pattern[e.pat].mult[e.k + 1]

\* the flows of the hydraulics file in force from time from for dt (in ms),
\* if one record of the file covers the whole of it
InForce(from, dt) ==
    {[k \in Links |-> IF RLt(RAbs(HydRecords[i].Q[k]), Q_STAGNANT)
                      THEN RZero ELSE HydRecords[i].Q[k]] :
        i \in {j \in DOMAIN HydRecords :
                  /\ HydRecords[j].time * MSEC <= from
                  /\ from + dt <= (HydRecords[j].time + HydRecords[j].step) * MSEC}}

\* the order in which the sorter puts the nodes for the directions FlowDir
OrderFor(FlowDir) ==
    sortNodes([MSX EXCEPT !.FlowDir = FlowDir, !.OutOfMemory = FALSE]).SortedNodes

TraceIx(op) == {i \in DOMAIN MSX.obs.trace : MSX.obs.trace[i].op = op}

\* C22: every transport sub-step lies within one hydraulic period and runs
\* with that period's flows, their directions and the node order of those
\* directions; a sub-step from time 0 comes after the hydraulic event at time
\* 0 has initialised the segments and sorted the nodes; and a later
\* hydraulic event before the end of the simulation sorts the nodes if and
\* only if the direction of some link has changed.
C22_HydraulicsInForce ==
    (call.name = "MSXstep" /\ ~ call.misused /\ ~ MSX.fault /\ ~ MSX.crashed)
        => LET trace == MSX.obs.trace
           IN  /\ \A i \in TraceIx("transport") :
                     /\ trace[i].Q \in InForce(trace[i].from, trace[i].dt)
                     /\ trace[i].FlowDir = [k \in Links |-> DirOf(trace[i].Q[k])]
                     /\ trace[i].SortedNodes = OrderFor(trace[i].FlowDir)
                     /\ trace[i].from = 0
                           => \E j \in TraceIx("event") :
                                 /\ j < i /\ trace[j].at = 0
                                 /\ trace[j].initSegs /\ trace[j].sorted
               /\ \A j \in TraceIx("event") :
                     (0 < trace[j].at /\ trace[j].at < MSX.Dur)
                         => (trace[j].sorted <=> trace[j].dirBefore # trace[j].dirAfter)

\* a step in which the flow of a link reversed between two transport sub-steps
C22_EventWithinStep ==
    /\ call.name = "MSXstep" /\ call.ret = 0 /\ ~ call.misused /\ ~ MSX.fault
    /\ \E i, j, l \in DOMAIN MSX.obs.trace :
          /\ i < j /\ j < l
          /\ MSX.obs.trace[i].op = "transport" /\ MSX.obs.trace[l].op = "transport"
          /\ MSX.obs.trace[j].op = "event" /\ MSX.obs.trace[j].sorted
          /\ MSX.obs.trace[i].FlowDir # MSX.obs.trace[l].FlowDir

\* a release of a volume into a link that has a last segment, seen in the last call
ReleasesOnSegment == {r \in MSX.obs.releases : r.last # NULL}

\* the release was merged into the last segment by volume-weighted average:
\* no segment was added, the new one went back to the free list
Merged(r) ==
    /\ r.lastAfter = r.last /\ r.nsegsAfter = r.nsegs
    /\ r.lastVAfter = RAdd(r.lastV, r.v)
    /\ r.lastCAfter = [m \in SpeciesIx |->
                          RDiv(RAdd(RMul(r.lastC[m], r.lastV), RMul(r.c[m], r.v)),
                               RAdd(r.lastV, r.v))]
    /\ r.FreeSegAfter = r.new

\* a new segment of volume v and the node's concentrations was added at the
\* upstream end, the last segment left as it was
Added(r) ==
    /\ r.lastAfter = r.new /\ r.nsegsAfter = r.nsegs + 1
    /\ r.newVAfter = r.v /\ r.newCAfter = r.c
    /\ r.newNextAfter = r.last /\ r.lastPrevAfter = r.new
    /\ r.lastVAfter = r.lastV /\ r.lastCAfter = r.lastC

\* C23 as stated: a release of a volume v > 0 into a link that has a last
\* segment is merged into that segment if and only if the node's
\* concentrations match the segment's within tolerance and the link's segment
\* budget is not exhausted; otherwise a new segment is added.
C23_MergeWithinBudget ==
    (Stepped /\ ~ MSX.OutOfMemory)
        => \A r \in ReleasesOnSegment :
              IF MSXqual_isSame(r.lastC, r.c) /\ r.nsegs < r.MaxSegments
              THEN Merged(r) ELSE Added(r)

\* C23 amended: the release is merged if and only if the concentrations match
\* within tolerance or the link's segment count has reached MaxSegments;
\* otherwise (no match, and the count below MaxSegments) a new segment of
\* volume v and the node's concentrations is added at the upstream end.
C23_MergeOrCap ==
    (Stepped /\ ~ MSX.OutOfMemory)
        => \A r \in ReleasesOnSegment :
              IF MSXqual_isSame(r.lastC, r.c) \/ r.nsegs >= r.MaxSegments
              THEN Merged(r) /\ ~ Added(r) ELSE Added(r) /\ ~ Merged(r)

\* a release that did not match was merged because the link was full
C23_MergedWhenFull ==
    /\ Stepped /\ ~ MSX.OutOfMemory
    /\ \E r \in ReleasesOnSegment :
          ~ MSXqual_isSame(r.lastC, r.c) /\ r.nsegs >= r.MaxSegments /\ Merged(r)

\* the sum of vol[i..Len(vol)] added to sum
RECURSIVE SumFrom(_, _, _)
SumFrom(vol, i, sum) ==
    IF i > Len(vol) THEN sum ELSE Let(RAdd(sum, vol[i]), LAMBDA x : SumFrom(vol, i + 1, x))
SumSeq(vol, i) == SumFrom(vol, i, RZero)

Reverse(q) == [i \in DOMAIN q |-> q[Len(q) + 1 - i]]

\* C24: the inflow from a link into its downstream node takes the link's
\* segments from FirstSeg on, until the flow volume |Q|*dt is used up or the
\* list is empty: the segments taken whole leave the list, lower the link's
\* count by one each and go to the free list; what stays is the rest of the
\* list, with only the volume of its first segment reduced; and the volume
\* credited to the node is the volume the link has lost.
C24_InflowConsumes ==
    Stepped
        => \A r \in MSX.obs.inflows :
              LET n == Len(r.segs) - Len(r.segsAfter)
                  left == SumSeq(r.volAfter, n + 1)
              IN  /\ n >= 0 /\ r.segsAfter = SubSeq(r.segs, n + 1, Len(r.segs))
                  /\ r.nsegsAfter = r.nsegs - n
                  /\ r.freeAfter = Reverse(SubSeq(r.segs, 1, n)) \o r.free
                  /\ r.LastSegAfter = IF r.segsAfter = <<>> THEN NULL
                                      ELSE r.segs[Len(r.segs)]
                  /\ r.sameC
                  /\ \A i \in (n + 2)..Len(r.segs) : r.volAfter[i] = r.vol[i]
                  /\ n < Len(r.segs) => RLe(r.volAfter[n + 1], r.vol[n + 1])
                  /\ r.credited = RSub(SumSeq(r.vol, 1), left)
                  /\ r.credited = RMin(r.v, SumSeq(r.vol, 1))

\* an inflow that took segments whole and a part of the next one
C24_PartlyConsumed ==
    /\ Stepped
    /\ \E r \in MSX.obs.inflows :
          /\ Len(r.segsAfter) > 0 /\ Len(r.segsAfter) < Len(r.segs)
          /\ r.volAfter[Len(r.segs) - Len(r.segsAfter) + 1]
                 # r.vol[Len(r.segs) - Len(r.segsAfter) + 1]

\* the links with flow form no directed cycle: the nodes can be ranked so that
\* every such link goes from a lower rank to a higher one
Acyclic(FlowDir) ==
    \E rank \in [Nodes -> Nodes] :
        \A k \in Links :
            FlowDir[k] # 0 => rank[upstreamOf(FlowDir, k)] < rank[downstreamOf(FlowDir, k)]

\* the place of node n in the sorted order
PlaceOf(SortedNodes, n) == CHOOSE j \in Nodes : SortedNodes[j] = n

\* C25: when the links with flow form no directed cycle, a run of sortNodes
\* returns 0 and leaves in SortedNodes every node once, the upstream node of
\* every link with flow before its downstream node
C25_UpstreamFirst ==
    (call.name = "sortNodes" /\ MSX.obs.sortRuns > 0 /\ Acyclic(MSX.FlowDir))
        => /\ call.ret = 0
           /\ {MSX.SortedNodes[j] : j \in Nodes} = Nodes
           /\ \A k \in Links :
                 MSX.FlowDir[k] # 0
                    => PlaceOf(MSX.SortedNodes, upstreamOf(MSX.FlowDir, k))
                          < PlaceOf(MSX.SortedNodes, downstreamOf(MSX.FlowDir, k))

\* the sorter ran for three flowing links without a cycle, with node 3 the
\* most upstream one
C25_SortedAgainstIndexOrder ==
    /\ call.name = "sortNodes" /\ MSX.obs.sortRuns > 0 /\ Acyclic(MSX.FlowDir)
    /\ \A k \in Links : MSX.FlowDir[k] = NEGATIVE
    /\ MSX.SortedNodes[1] = 3

\* C26: whatever the threads of the parallel loop over the links do, every run
\* of MSXchem_react in a step leaves the segment concentrations, the error
\* code, the math error flag and the message that one thread taking the
\* links in index order leaves
C26_AsSequential ==
    (call.name = "MSXstep" /\ ~ call.misused /\ ~ MSX.crashed /\ ~ MSX.fault)
        => \A o \in MSX.obs.reactions : o.got = o.seq

\* the segments of the free list, from FreeSeg along prev
FreeSegs(s) == Range(FreeList(s, Cardinality(DOMAIN s.Seg)))

\* the places segment i is in: the links whose list holds it, and "free"
\* when the free list holds it
PlacesOf(s, i) ==
    {k \in Links : i \in Range(SegList(s, k))}
        \cup (IF i \in FreeSegs(s) THEN {"free"} ELSE {})

\* C27: after the transport of a step every segment taken from the pool since
\* the last MSXinit is in exactly one place, the list of one link or the free
\* list
C27_SegmentConservation ==
    Stepped
        => \A i \in DOMAIN MSX.Seg \ {NULL} : Cardinality(PlacesOf(MSX, i)) = 1

\* C28: after MSXinit and after every MSXstep, whatever calls of init and
\* step came before, the count of each link is the number of segments on its
\* list from FirstSeg along prev
C28_CountIsLength ==
    (call.name \in {"MSXinit", "MSXstep"} /\ ~ call.misused /\ ~ MSX.crashed /\ ~ MSX.fault)
        => \A k \in Links : MSX.nsegs[k] = Len(SegList(MSX, k))

\* the least number of steps of length Qstep that cover Dur
StepsFor(Dur, Qstep) == (Dur + Qstep - 1) \div Qstep

\* C29: a step of an initialised run never moves Qtime back nor beyond Dur,
\* and when it returns 0 while time remains it moves Qtime on by
\* min(Qstep, Dur - Qtime); MSXsolveQ ends within ceil(Dur / Qstep) steps
C29_QtimeAdvances ==
    [][/\ (call'.n = call.n + 1 /\ call'.name = "MSXstep" /\ call'.ret # -1
            /\ MSX.initialised /\ ~ call'.misused)
          => /\ MSX'.Qtime >= MSX.Qtime
             /\ MSX'.Qtime <= MSX'.Dur
             /\ (call'.ret = 0 /\ MSX.Qtime < MSX.Dur)
                   => MSX'.Qtime = MSX.Qtime + MinI(MSX.Qstep, MSX.Dur - MSX.Qtime)
       /\ (call'.n = call.n + 1 /\ call'.name = "MSXsolveQ" /\ call'.ret # -1
            /\ MSX.ProjectOpened)
          => /\ MSX'.obs.solveEnded
             /\ MSX'.obs.solveSteps <= StepsFor(MSX'.Dur, MSX'.Qstep)
             /\ call'.ret = 0 => MSX'.Qtime = MSX'.Dur]_vars

\* C30: when MSXopen has returned an error it met while opening (in the
\* project's file or in the chemistry system), the project is not marked as
\* opened: the next toolkit call returns ERR_MSX_NOT_OPENED, and the next
\* MSXopen is not refused with ERR_MSX_OPENED
C30_FailedOpenLeavesIdle ==
    [][(call.name = "MSXopen" /\ call.ret \notin {0, ERR_MSX_OPENED})
          => /\ ~ MSX.ProjectOpened
             /\ call'.name = "MSXgetcount" => call'.ret = ERR_MSX_NOT_OPENED
             /\ call'.name = "MSXopen" => call'.ret # ERR_MSX_OPENED]_vars

\* C31: while results are saved the closing records are in the output file
\* once, written by the step that brought the time left to 0; a step made
\* after that, without a new MSXinit, reads no hydraulics, writes nothing to
\* the output file and leaves the state of the simulation as it was
C31_FinalisedOnce ==
    [][(call'.n = call.n + 1 /\ call'.name = "MSXstep" /\ call'.ret # -1
            /\ MSX.initialised /\ ~ call'.misused /\ MSX.HydFile # NULL)
          => /\ (MSX'.Saveflag # 0 /\ call'.ret = 0)
                   => MSX'.OutFile.closings = IF MSX'.Qtime >= MSX'.Dur THEN 1 ELSE 0
             /\ (call.name = "MSXstep" /\ MSX.Qtime >= MSX.Dur)
                   => /\ MSX'.obs.hydReads = 0 /\ MSX'.HydPos = MSX.HydPos
                      /\ MSX'.OutFile = MSX.OutFile
                      /\ ProjectState(MSX') = ProjectState(MSX)]_vars

-----------------------------------------------------------------------------
(* Tank mixing (msxtank.c).  A project with one non-reservoir tank and one *)
(* bulk species, no equilibrium or formula species (MSXchem_equil then     *)
(* changes nothing).  The tank's segment list is list TankK of the pool;   *)
(* its state is the pool's memory, the list's ends, the tank's quality     *)
(* Tank[i].c and the tank's volume Tank[i].v of the hydraulics.            *)

\* enum MixType
MIX1 == 0
MIX2 == 1
FIFO == 2
LIFO == 3

\* k = MSX.Nobjects[LINK] + i
TankK == NLinks + 1

\* mixing updates made in a run
MaxMixes == 2

TankEnvs ==
    {[heapSegs |-> HEAP_AMPLE, nullTraps |-> TRUE,
      tank |-> [mixModel |-> mm, v0 |-> RInt(v), vMix |-> RInt(10), c0 |-> <<RInt(c)>>]] :
        mm \in {MIX1, MIX2, FIFO, LIFO}, v \in {8, 15}, c \in {0, 1}}

TankMem0 ==
    [Seg |-> [i \in {NULL} |-> [v |-> RZero, c |-> <<RZero>>, prev |-> NULL, next |-> NULL]],
     PoolTop |-> 0, FreeSeg |-> NULL, FreeSegStale |-> FALSE,
     FirstSeg |-> [k \in {TankK} |-> NULL], LastSeg |-> [k \in {TankK} |-> NULL],
     nsegs |-> [k \in {TankK} |-> 0],
     OutOfMemory |-> FALSE, fault |-> FALSE, crashed |-> FALSE,
     TankC |-> <<RZero>>, TankV |-> RZero, C1 |-> <<RZero>>,
     obs |-> [head |-> [k \in {TankK} |-> 0], mixes |-> 0, reversals |-> 0]]

\* initSegs, for the tank: two segments for the 2-compartment model (the
\* stagnant zone first, then the mixing zone), one for the other models
initTankSegs(s) ==
    LET c == env.tank.c0
        s0 == [s EXCEPT !.C1 = c, !.TankV = env.tank.v0,
                        !.FirstSeg[TankK] = NULL, !.LastSeg[TankK] = NULL]
    IN  IF env.tank.mixModel = MIX2
        THEN LET v == RMax(RZero, RSub(env.tank.v0, env.tank.vMix))
             IN  Let(MSXqual_getFreeSeg(s0, v, c), LAMBDA g1 :
                 Let(MSXqual_addSeg(g1.st, TankK, g1.seg), LAMBDA s1 :
                 Let(MSXqual_getFreeSeg(s1, RSub(env.tank.v0, v), c), LAMBDA g2 :
                     MSXqual_addSeg(g2.st, TankK, g2.seg))))
        ELSE Let(MSXqual_getFreeSeg(s0, env.tank.v0, c), LAMBDA g :
                 MSXqual_addSeg(g.st, TankK, g.seg))

\* completely mixed tank
MSXtank_mix1(s, vin, massin, vnet) ==
    LET seg == s.FirstSeg[TankK]
    IN  IF seg = NULL THEN s
        ELSE LET v == s.Seg[seg].v
                 vnew == RAdd(v, vin)
                 c == [m \in DOMAIN massin |->
                          RMax(RZero, IF RLt(RZero, vnew)
                                      THEN RDiv(RAdd(RMul(RMul(s.Seg[seg].c[m], v), LperFT3), massin[m]),
                                                RMul(vnew, LperFT3))
                                      ELSE s.Seg[seg].c[m])]
             IN  [s EXCEPT !.Seg[seg].c = c, !.TankC = c,
                           !.Seg[seg].v = RMax(RZero, RAdd(v, vnet))]

\* 2-compartment tank: the mixing zone is the last segment, the stagnant
\* zone the first
MSXtank_mix2(s, vin, massin, vnet) ==
    LET mixzone == s.LastSeg[TankK]
        stagzone == s.FirstSeg[TankK]
    IN  IF mixzone = NULL \/ stagzone = NULL THEN s
        ELSE LET vmz == env.tank.vMix
                 mv == s.Seg[mixzone].v
                 sv == s.Seg[stagzone].v
                 mc == s.Seg[mixzone].c
                 sc == s.Seg[stagzone].c
                 filling == RLt(RZero, vnet)
                 draining == RLt(vnet, RZero)
                 vt == IF filling THEN RMax(RZero, RSub(RAdd(mv, vnet), vmz))
                       ELSE IF draining /\ RLt(RZero, sv) THEN RMin(sv, RNeg(vnet))
                       ELSE RZero
                 mc1 == IF filling /\ RLt(RZero, vin)
                        THEN [m \in DOMAIN mc |->
                                 RMax(RZero, RDiv(RAdd(RMul(RMul(mc[m], mv), LperFT3), massin[m]),
                                                  RMul(RAdd(mv, vin), LperFT3)))]
                        ELSE IF draining /\ RLt(RZero, RAdd(vin, vt))
                        THEN [m \in DOMAIN mc |->
                                 RMax(RZero, RDiv(RAdd(RAdd(RMul(RMul(mc[m], mv), LperFT3), massin[m]),
                                                       RMul(RMul(sc[m], vt), LperFT3)),
                                                  RMul(RAdd(RAdd(mv, vin), vt), LperFT3)))]
                        ELSE mc
                 sc1 == IF filling /\ RLt(RZero, vt)
                        THEN [m \in DOMAIN sc |->
                                 RMax(RZero, RDiv(RAdd(RMul(sc[m], sv), RMul(mc1[m], vt)),
                                                  RAdd(sv, vt)))]
                        ELSE sc
                 mv1 == IF RLt(RZero, vt) THEN vmz
                        ELSE RMax(RZero, RMin(RAdd(mv, vnet), vmz))
                 sv1 == IF RLt(RZero, vt)
                        THEN (IF filling THEN RAdd(sv, vt) ELSE RMax(RZero, RSub(sv, vt)))
                        ELSE RZero
             IN  [s EXCEPT !.Seg = [@ EXCEPT ![stagzone].c = sc1, ![stagzone].v = sv1,
                                             ![mixzone].c = mc1, ![mixzone].v = mv1],
                           !.TankC = mc1]

\* the withdrawal loop of the FIFO model: volume vout is taken from the
\* first segments; vsum and mass are what was taken so far
RECURSIVE withdrawFirst(_, _, _, _)
withdrawFirst(s, vout, vsum, mass) ==
    LET seg == s.FirstSeg[TankK]
    IN  IF ~ RLt(RZero, vout) \/ seg = NULL THEN [st |-> s, vsum |-> vsum, mass |-> mass]
        ELSE LET v == s.Seg[seg].v
                 vseg == IF seg = s.LastSeg[TankK] THEN vout ELSE RMin(v, vout)
                 vleft == RSub(vout, vseg)
                 mass1 == [m \in DOMAIN mass |->
                              RAdd(mass[m], RMul(RMul(s.Seg[seg].c[m], vseg), LperFT3))]
                 s1 == IF RLe(RZero, vleft) /\ RLe(v, vseg)
                       THEN (IF s.Seg[seg].prev # NULL
                             THEN [s EXCEPT !.FirstSeg[TankK] = s.Seg[seg].prev,
                                            !.Seg[seg].prev = s.FreeSeg,
                                            !.FreeSeg = seg]
                             ELSE s)
                       ELSE [s EXCEPT !.Seg[seg].v = RSub(v, vseg)]
             IN  withdrawFirst(s1, vleft, RAdd(vsum, vseg), mass1)

\* first-in-first-out tank
MSXtank_mix3(s, vin, massin, vnet) ==
    LET k == TankK
        vout == RSub(vin, vnet)
    IN  IF s.LastSeg[k] = NULL \/ s.FirstSeg[k] = NULL THEN s
        ELSE LET seg == s.LastSeg[k]
                 c1 == [m \in DOMAIN massin |-> RDiv(massin[m], RMul(vin, LperFT3))]
                 s1 == IF ~ RLt(RZero, vin) THEN s
                       ELSE IF MSXqual_isSame(s.Seg[seg].c, c1)
                       THEN [s EXCEPT !.C1 = c1,
                                      !.Seg[seg].c =
                                          [m \in DOMAIN c1 |->
                                              RDiv(RAdd(RMul(s.Seg[seg].c[m], s.Seg[seg].v),
                                                        RMul(c1[m], vin)),
                                                   RAdd(s.Seg[seg].v, vin))],
                                      !.Seg[seg].v = RAdd(@, vin)]
                       ELSE Let(MSXqual_getFreeSeg([s EXCEPT !.C1 = c1], vin, c1), LAMBDA g :
                                MSXqual_addSeg(g.st, k, g.seg))
             IN  Let(withdrawFirst(s1, vout, RZero, [m \in DOMAIN massin |-> RZero]), LAMBDA w :
                     [w.st EXCEPT !.C1 = w.mass,
                                  !.TankC = [m \in DOMAIN massin |->
                                                IF RLt(RZero, w.vsum)
                                                THEN RDiv(w.mass[m], RMul(w.vsum, LperFT3))
                                                ELSE IF w.st.FirstSeg[k] = NULL THEN RZero
                                                ELSE w.st.Seg[w.st.FirstSeg[k]].c[m]]])

\* the withdrawal loop of the LIFO model, on the reversed list
RECURSIVE withdrawLast(_, _, _, _)
withdrawLast(s, vnet, vsum, mass) ==
    LET seg == s.FirstSeg[TankK]
    IN  IF ~ RLt(RZero, vnet) \/ seg = NULL THEN [st |-> s, vsum |-> vsum, mass |-> mass]
        ELSE LET v == s.Seg[seg].v
                 vseg == IF seg = s.LastSeg[TankK] THEN vnet ELSE RMin(v, vnet)
                 vleft == RSub(vnet, vseg)
                 mass1 == [m \in DOMAIN mass |->
                              RAdd(mass[m], RMul(RMul(s.Seg[seg].c[m], vseg), LperFT3))]
                 s1 == IF RLe(RZero, vleft) /\ RLe(v, vseg)
                       THEN (IF s.Seg[seg].prev # NULL
                             THEN MSXqual_removeSeg(
                                      [s EXCEPT !.FirstSeg[TankK] = s.Seg[seg].prev], seg)
                             ELSE s)
                       ELSE [s EXCEPT !.Seg[seg].v = RSub(v, vseg)]
             IN  withdrawLast(s1, vleft, RAdd(vsum, vseg), mass1)

\* last-in-first-out tank
MSXtank_mix4(s, vin, massin, vnet) ==
    LET k == TankK
    IN  IF s.LastSeg[k] = NULL \/ s.FirstSeg[k] = NULL THEN s
        ELSE LET seg == s.LastSeg[k]
                 c1 == IF RLt(RZero, vin)
                       THEN [m \in DOMAIN massin |-> RDiv(massin[m], RMul(vin, LperFT3))]
                       ELSE [m \in DOMAIN massin |-> RZero]
                 s0 == [s EXCEPT !.C1 = c1, !.TankC = s.Seg[seg].c]
             IN  IF RLt(RZero, vnet)
                 THEN Let(IF MSXqual_isSame(s.Seg[seg].c, c1)
                          THEN [s0 EXCEPT !.Seg[seg].c =
                                              [m \in DOMAIN c1 |->
                                                  RDiv(RAdd(RMul(s.Seg[seg].c[m], s.Seg[seg].v),
                                                            RMul(c1[m], vnet)),
                                                       RAdd(s.Seg[seg].v, vnet))],
                                          !.Seg[seg].v = RAdd(@, vnet)]
                          ELSE Let(MSXqual_getFreeSeg(s0, vnet, c1), LAMBDA g :
                                   MSXqual_addSeg(g.st, k, g.seg)),
                          LAMBDA s1 : [s1 EXCEPT !.TankC = s1.Seg[s1.LastSeg[k]].c])
                 ELSE IF RLt(vnet, RZero)
                 THEN Let(withdrawLast(MSXqual_reversesegs(s0, k), RNeg(vnet), RZero,
                                       [m \in DOMAIN massin |-> RZero]), LAMBDA w :
                      Let(MSXqual_reversesegs(w.st, k), LAMBDA s1 :
                          [s1 EXCEPT !.C1 = w.mass,
                                     !.TankC = [m \in DOMAIN massin |->
                                                   IF RLt(RZero, RAdd(w.vsum, vin))
                                                   THEN RDiv(RAdd(w.mass[m], massin[m]),
                                                             RMul(RAdd(w.vsum, vin), LperFT3))
                                                   ELSE @[m]]]))
                 ELSE s0

\* the switch on the tank's mixing model
MSXtank_mix(s, vin, massin, vnet) ==
    CASE env.tank.mixModel = MIX1 -> MSXtank_mix1(s, vin, massin, vnet)
      [] env.tank.mixModel = MIX2 -> MSXtank_mix2(s, vin, massin, vnet)
      [] env.tank.mixModel = FIFO -> MSXtank_mix3(s, vin, massin, vnet)
      [] env.tank.mixModel = LIFO -> MSXtank_mix4(s, vin, massin, vnet)

\* the inflow and outflow volumes (ft3) and the inflow quality of a sub-step
VolinArgs == {RInt(0), RInt(4), RInt(20)}
VoloutArgs == {RInt(0), RInt(4), RInt(8), RInt(15)}
QualArgs == {RInt(0), RInt(2)}

\* findnodequal, for a tank: the mixing update of the tank's model, then
\* Tank[j].v += D[n] * tstep.  The hydraulics never empty a tank below 0.
TankUpdate(mixModel, name) ==
    /\ env.tank.mixModel = mixModel
    /\ MSX.obs.mixes < MaxMixes
    /\ \E volin \in VolinArgs, volout \in VoloutArgs, cin \in QualArgs :
          LET vnet == RSub(volin, volout)
              massin == <<RMul(RMul(cin, volin), LperFT3)>>
          IN  /\ RLe(RZero, RAdd(MSX.TankV, vnet))
              /\ MSX' = [MSXtank_mix([MSX EXCEPT !.obs.mixes = @ + 1], volin, massin, vnet)
                            EXCEPT !.TankV = RAdd(@, vnet)]
              /\ call' = [NoCall EXCEPT !.name = name, !.n = call.n + 1,
                                        !.args = <<volin, massin, vnet>>]
    /\ UNCHANGED env

UpdateMix1 == TankUpdate(MIX1, "MSXtank_mix1")
UpdateMix2 == TankUpdate(MIX2, "MSXtank_mix2")
UpdateMix3 == TankUpdate(FIFO, "MSXtank_mix3")
UpdateMix4 == TankUpdate(LIFO, "MSXtank_mix4")

InitTank == env \in TankEnvs /\ MSX = initTankSegs(TankMem0) /\ call = NoCall

NextTank == UpdateMix1 \/ UpdateMix2 \/ UpdateMix3 \/ UpdateMix4

SpecTank == InitTank /\ [][NextTank]_vars

\* C32: a mixing update of a tank changes the sum of the volumes of the
\* tank's segments by the net volume vnet, floored at zero
C32_TankVolumeBalance ==
    [][call'.name \in {"MSXtank_mix1", "MSXtank_mix2", "MSXtank_mix3", "MSXtank_mix4"}
          => SegVolume(MSX', TankK) = RMax(RZero, RAdd(SegVolume(MSX, TankK), call'.args[3]))]_vars

\* the transport sub-steps seen in the last call
Substeps == {MSX.obs.trace[i] : i \in {j \in DOMAIN MSX.obs.trace : MSX.obs.trace[j].op = "transport"}}

\* the links that flow from node i to node n
FlowingLinks(FlowDir, i, n) ==
    {k \in Links : FlowDir[k] # ZERO_FLOW /\ upstreamOf(FlowDir, k) = i /\ downstreamOf(FlowDir, k) = n}

\* C33: a link whose flow is below Q_STAGNANT has flow 0 after the hydraulic
\* read and direction Zero in every transport sub-step; it is counted in no
\* node's in-degree and reduces none in the sort; nothing is released into
\* its list and an inflow from it leaves the list as it was
C33_StagnantLinksInert ==
    (~ MSX.crashed /\ ~ MSX.fault) =>
        /\ \A k \in Links : RLt(RAbs(MSX.Q[k]), Q_STAGNANT) => MSX.Q[k] = RZero
        /\ \A t \in Substeps :
              /\ \A k \in Links : RLt(RAbs(t.Q[k]), Q_STAGNANT) => t.FlowDir[k] = ZERO_FLOW
              /\ \A n \in Nodes :
                    countInflow(1, t.FlowDir, [j \in Nodes |-> 0])[n]
                        = Cardinality(UNION {FlowingLinks(t.FlowDir, i, n) : i \in Nodes})
              /\ \A i, n \in Nodes :
                    NLinks - reduceDegree(i, 1, t.FlowDir,
                                          [indegree |-> [j \in Nodes |-> NLinks],
                                           stack |-> <<>>]).indegree[n]
                        = IF n = i THEN 0 ELSE Cardinality(FlowingLinks(t.FlowDir, i, n))
        /\ \A r \in MSX.obs.releases : r.v # RZero
        /\ \A f \in MSX.obs.inflows :
              f.v = RZero => /\ f.segsAfter = f.segs /\ f.volAfter = f.vol
                             /\ f.sameC /\ f.nsegsAfter = f.nsegs

\* a sub-step was made with a link whose flow in the hydraulics file is
\* below Q_STAGNANT and not 0, and the inflow from that link was evaluated
C33_StagnantSubstep ==
    /\ Stepped
    /\ \E t \in Substeps : \E k \in Links :
          /\ t.FlowDir[k] = ZERO_FLOW
          /\ \E i \in DOMAIN HydRecords : HydRecords[i].Q[k] = Qtiny
          /\ \E f \in MSX.obs.inflows : f.k = k /\ f.v = RZero /\ f.segs # <<>>

\* C34: when the reaction update of any pipe returns an error in the one
\* reaction pass of a step, MSXchem_react returns a nonzero code, and no
\* transport sub-step is completed after a pass that returned one
C34_PipeErrorReturned ==
    (Stepped /\ MSX.obs.reacts = 1)
        => /\ MSX.obs.pipeErrs # {} => MSX.obs.reactErr # 0
           /\ MSX.obs.reactErr # 0 => MSX.obs.substeps = 0

\* the lines whose expressions are evaluated through the variable-value
\* function of a zone (sect is s_PIPE or s_TANK): those of the terms, and
\* those of the zone's formulas
EvaluatedLines(file, sect) ==
    LinesOf(file, {s_TERM}) \cup {k \in LinesOf(file, {sect}) : file[k].Tok[1] = FORMULAWord}

\* the evaluated lines that line k's expression refers to through at most n others
RECURSIVE ReachesIn(_, _, _, _)
ReachesIn(file, sect, k, n) ==
    LET direct == {m \in EvaluatedLines(file, sect) : RefersTo(file, k, m)}
    IN  IF n = 0 THEN direct
        ELSE direct \cup UNION {ReachesIn(file, sect, m, n - 1) : m \in direct}

CyclicIn(file, sect) ==
    \E k \in EvaluatedLines(file, sect) : k \in ReachesIn(file, sect, k, Len(file))

\* C35: a model that MSXopen accepts has no reference cycle among its terms
\* and the species governed by formulas, in pipes or in tanks
C35_NoReferenceCycle ==
    (call.name = "MSXopen" /\ call.ret = 0)
        => ~ CyclicIn(env.file, s_PIPE) /\ ~ CyclicIn(env.file, s_TANK)

-----------------------------------------------------------------------------
(* The lexer and parser of mathexpr.c over any formula text.  p holds the  *)
(* parser's globals Pos, PrevLex, CurLex, Fvalue, Ivar, Err and Bc, and n  *)
(* the code the last lexer call returned; a tree is kept as the postfix    *)
(* list traverseTree makes of it, the NULL tree as the empty list.         *)

DigitChars == <<"0", "1", "2", "3", "4", "5", "6", "7", "8", "9">>
digitOf(c) == (CHOOSE d \in 1..10 : DigitChars[d] = c) - 1

\* the digits of S from Pos on: the position after them, their value, their count
RECURSIVE digitsFrom(_, _, _, _)
digitsFrom(S, Pos, n, k) ==
    IF Pos < Len(S) /\ isDigit(CharAt(S, Pos))
    THEN digitsFrom(S, Pos + 1, 10 * n + digitOf(CharAt(S, Pos)), k + 1)
    ELSE [Pos |-> Pos, n |-> n, k |-> k]

RECURSIVE Pow10(_)
Pow10(k) == IF k = 0 THEN 1 ELSE 10 * Pow10(k - 1)

\* F of the value v
With(v, F(_)) == F(v)

\* the number at Pos: whole part (w), fraction (f), exponent (e, with its
\* sign at p1 and its digits from p2); Pos is left on its last character,
\* and an exponent without digits makes it 0
getNumber(S, Pos) ==
    With(digitsFrom(S, Pos, 0, 0), LAMBDA w :
    With(IF w.Pos < Len(S) /\ CharAt(S, w.Pos) = "."
         THEN digitsFrom(S, w.Pos + 1, 0, 0)
         ELSE [Pos |-> w.Pos, n |-> 0, k |-> 0], LAMBDA f :
    With(f.Pos < Len(S) /\ CharAt(S, f.Pos) \in {"e", "E"}, LAMBDA hasE :
    With(f.Pos + 1, LAMBDA p1 :
    With(IF hasE /\ p1 < Len(S) /\ CharAt(S, p1) \in {"-", "+"} THEN p1 + 1 ELSE p1,
         LAMBDA p2 :
    With(hasE /\ (p2 >= Len(S) \/ ~ isDigit(CharAt(S, p2))), LAMBDA errflag :
    With(IF hasE /\ ~ errflag THEN digitsFrom(S, p2, 0, 0)
         ELSE [Pos |-> p2, n |-> 0, k |-> 0], LAMBDA e :
         [Pos |-> (IF hasE THEN e.Pos ELSE f.Pos) - 1,
          val |-> IF errflag THEN RZero
                  ELSE RMul(RAdd(RInt(w.n), Rat(f.n, Pow10(f.k))),
                            IF hasE /\ CharAt(S, p1) = "-" THEN Rat(1, Pow10(e.n))
                            ELSE RInt(Pow10(e.n)))])))))))

\* the code of the operator at Pos, 0 if there is none; a '-' before a digit
\* is the sign of a number when the lexeme before it has a code up to 6 or 31
getOperandAt(S, p) ==
    LET c == CharAt(S, p.Pos)
    IN  CASE c = "(" -> [p EXCEPT !.n = 1]
          [] c = ")" -> [p EXCEPT !.n = 2]
          [] c = "+" -> [p EXCEPT !.n = 3]
          [] c = "-" -> IF p.Pos < Len(S) - 1 /\ isDigit(CharAt(S, p.Pos + 1))
                           /\ (p.CurLex <= 6 \/ p.CurLex = 31)
                        THEN With(getNumber(S, p.Pos + 1), LAMBDA num :
                                 [p EXCEPT !.Pos = num.Pos, !.Fvalue = RNeg(num.val), !.n = 7])
                        ELSE [p EXCEPT !.n = 4]
          [] c = "*" -> [p EXCEPT !.n = 5]
          [] c = "/" -> [p EXCEPT !.n = 6]
          [] c = "^" -> [p EXCEPT !.n = 31]
          [] OTHER -> [p EXCEPT !.n = 0]

RECURSIVE skipSpaces(_, _)
skipSpaces(S, Pos) ==
    IF Pos < Len(S) /\ CharAt(S, Pos) = " " THEN skipSpaces(S, Pos + 1) ELSE Pos

\* the variable of the token t
variableLex(s, p, t) ==
    With(getVariableCode(s, t.Token), LAMBDA Ivar :
         [p EXCEPT !.Pos = t.Pos, !.Ivar = Ivar, !.n = IF Ivar >= 0 THEN 8 ELSE 0])

\* the function or variable of the token at Pos
tokenLex(s, S, p) ==
    With(getToken(S, p.Pos, <<>>), LAMBDA t :
    With(getMathFunc(t.Token), LAMBDA f :
         IF f # 0 THEN [p EXCEPT !.Pos = t.Pos, !.n = f] ELSE variableLex(s, p, t)))

\* the next lexeme: at the end of the text 0, with PrevLex and CurLex as they were
getLexAt(s, S, p0) ==
    With([p0 EXCEPT !.Pos = skipSpaces(S, p0.Pos)], LAMBDA p :
    With(getOperandAt(S, p), LAMBDA o :
    With(IF o.n # 0 THEN o
         ELSE IF isLetter(CharAt(S, p.Pos)) THEN tokenLex(s, S, p)
         ELSE IF CharAt(S, p.Pos) = "." \/ isDigit(CharAt(S, p.Pos))
         THEN With(getNumber(S, p.Pos), LAMBDA num :
                   [p EXCEPT !.Pos = num.Pos, !.Fvalue = num.val, !.n = 7])
         ELSE o, LAMBDA l :
         IF p.Pos >= Len(S) THEN [p EXCEPT !.n = 0]
         ELSE [l EXCEPT !.Pos = @ + 1, !.PrevLex = p.CurLex, !.CurLex = l.n])))

newNode == [opcode |-> 0, fvalue |-> RZero, ivar |-> -1]

\* The recursive descent of getTree, getOp and getSingleOp runs on a stack
\* of frames [fn, pc, left, opcode, neg], one for each call that has not
\* returned: m holds the parser's globals p, the lexeme *lex of the caller,
\* the frames, and the tree the last call returned (ret).
Frame(fn) == [fn |-> fn, pc |-> 0, left |-> <<>>, opcode |-> 0, neg |-> FALSE]
TopFrame(m) == m.frames[Len(m.frames)]
\* the running function goes on as f
GoOn(m, f) == [m EXCEPT !.frames = SubSeq(@, 1, Len(@) - 1) \o <<f>>]
\* the running function calls fn, and goes on as f when that returns
CallFrom(m, f, fn) == [m EXCEPT !.frames = SubSeq(@, 1, Len(@) - 1) \o <<f, Frame(fn)>>]
\* the running function returns a tree
Return(m, tree) == [m EXCEPT !.frames = SubSeq(@, 1, Len(@) - 1), !.ret = tree]
\* the lexer is called, and *lex is what it returned
Lexed(m, l) == [m EXCEPT !.p = l, !.lex = l.n]

\* one operand: a parenthesised tree, a number, a variable, or a function
\* of a parenthesised tree, with an exponent if a '^' follows; anything else
\* is an error
getSingleOp(s, S, m) ==
    With(TopFrame(m), LAMBDA f :
    With(getLexAt(s, S, m.p), LAMBDA l :
        CASE f.pc = 0 ->
                 IF m.lex = 1
                 THEN CallFrom([m EXCEPT !.p.Bc = @ + 1], [f EXCEPT !.pc = 1], "getTree")
                 ELSE IF m.lex < 7 \/ m.lex = 9 \/ m.lex > 30
                 THEN Return([m EXCEPT !.p.Err = 1], <<>>)
                 ELSE IF m.lex = 7
                 THEN GoOn(m, [f EXCEPT !.pc = 2,
                                  !.left = <<[newNode EXCEPT !.opcode = 7,
                                                            !.fvalue = m.p.Fvalue]>>])
                 ELSE IF m.lex = 8
                 THEN GoOn(m, [f EXCEPT !.pc = 2,
                                  !.left = <<[newNode EXCEPT !.opcode = 8,
                                                            !.ivar = m.p.Ivar]>>])
                 ELSE IF l.n # 1
                 THEN Return(Lexed(m, [l EXCEPT !.Err = 1]), <<>>)
                 ELSE CallFrom(Lexed(m, [l EXCEPT !.Bc = @ + 1]),
                               [f EXCEPT !.pc = 1, !.opcode = m.lex], "getTree")
          \* the tree in the parentheses has been read
          [] f.pc = 1 ->
                 GoOn(m, [f EXCEPT !.pc = 2,
                             !.left = IF f.opcode = 0 THEN m.ret
                                      ELSE m.ret \o <<[newNode EXCEPT !.opcode = f.opcode]>>])
          \* the lexeme after the operand
          [] f.pc = 2 ->
                 IF l.n = 31
                 THEN CallFrom(Lexed(m, getLexAt(s, S, l)), [f EXCEPT !.pc = 3], "getSingleOp")
                 ELSE Return(Lexed(m, l), f.left)
          \* the exponent has been read
          [] f.pc = 3 ->
                 Return(m, f.left \o m.ret \o <<[newNode EXCEPT !.opcode = 31]>>)))

\* a product of operands joined by '*' and '/'; a sign before it is taken
\* as unary when the lexeme before the sign was none or '('
getOp(s, S, m) ==
    With(TopFrame(m), LAMBDA f :
    With(getLexAt(s, S, m.p), LAMBDA l :
        CASE f.pc = 0 ->
                 CallFrom(Lexed(m, IF l.PrevLex \in {0, 1} /\ l.n \in {3, 4}
                                   THEN getLexAt(s, S, l) ELSE l),
                          [f EXCEPT !.pc = 1, !.neg = l.PrevLex \in {0, 1} /\ l.n = 4],
                          "getSingleOp")
          [] f.pc = 1 -> GoOn(m, [f EXCEPT !.pc = 2, !.left = m.ret])
          \* the head of the while loop
          [] f.pc = 2 ->
                 IF m.lex \in {5, 6}
                 THEN CallFrom(Lexed(m, l), [f EXCEPT !.pc = 3, !.opcode = m.lex],
                               "getSingleOp")
                 ELSE IF ~ f.neg THEN Return(m, f.left)
                 ELSE IF m.p.Err # 0 THEN Return(m, <<>>)
                 ELSE Return(m, f.left \o <<[newNode EXCEPT !.opcode = 9]>>)
          \* the right operand has been read
          [] f.pc = 3 ->
                 IF m.p.Err # 0 THEN Return(m, <<>>)
                 ELSE GoOn(m, [f EXCEPT !.pc = 2,
                                  !.left = f.left \o m.ret
                                               \o <<[newNode EXCEPT !.opcode = f.opcode]>>])))

\* products joined by '+' and '-', up to the end of the text or a ')'
getTreeAt(s, S, m) ==
    With(TopFrame(m), LAMBDA f :
        CASE f.pc = 0 -> CallFrom(m, [f EXCEPT !.pc = 1], "getOp")
          [] f.pc = 1 -> GoOn(m, [f EXCEPT !.pc = 2, !.left = m.ret])
          \* the head of the for loop
          [] f.pc = 2 ->
                 IF m.lex \in {0, 2}
                 THEN Return([m EXCEPT !.p.Bc = IF m.lex = 2 THEN @ - 1 ELSE @], f.left)
                 ELSE IF m.lex \notin {3, 4}
                 THEN Return([m EXCEPT !.p.Err = 1], f.left)
                 ELSE CallFrom(m, [f EXCEPT !.pc = 3, !.opcode = m.lex], "getOp")
          \* the right product has been read
          [] f.pc = 3 ->
                 IF m.p.Err # 0 THEN Return(m, f.left)
                 ELSE GoOn(m, [f EXCEPT !.pc = 2,
                                  !.left = f.left \o m.ret
                                               \o <<[newNode EXCEPT !.opcode = f.opcode]>>]))

\* the parser runs until its first call of getTree has returned
RECURSIVE parseRun(_, _, _)
parseRun(s, S, m) ==
    IF m.frames = <<>> THEN m
    ELSE parseRun(s, S, CASE TopFrame(m).fn = "getTree" -> getTreeAt(s, S, m)
                          [] TopFrame(m).fn = "getOp" -> getOp(s, S, m)
                          [] TopFrame(m).fn = "getSingleOp" -> getSingleOp(s, S, m))

\* the postfix expression of a formula, or NoExpr for NULL: an expression is
\* returned only if the parentheses balance and no error was met
mathexpr_createIR(s, formula) ==
    With(parseRun(s, formula,
                  [p |-> [Pos |-> 0, PrevLex |-> 0, CurLex |-> 0, Fvalue |-> RZero,
                          Ivar |-> -1, Err |-> 0, Bc |-> 0, n |-> 0],
                   lex |-> 0, frames |-> <<Frame("getTree")>>, ret |-> <<>>]), LAMBDA m :
         IF m.p.Bc = 0 /\ m.p.Err = 0 THEN m.ret ELSE NoExpr)

-----------------------------------------------------------------------------
(* mathexpr_create and mathexpr_eval on formula texts, and mathexpr_eval   *)
(* on any list of nodes                                                    *)

MaxFormula == 5
MaxNodes == 3

FormulaChars == {"x", "1", "2", "(", ")", "-"}
Formulas == UNION {[1..n -> FormulaChars] : n \in 0..MaxFormula}

\* the one variable x of the formulas is species 1, and its value
ExprProj == [Inp0 EXCEPT !.ID[SPECIES] = << <<"x">> >>]
ExprC == <<RInt(5)>>

IRNodes == {[newNode EXCEPT !.opcode = 7, !.fvalue = RInt(3)],
            [newNode EXCEPT !.opcode = 8, !.ivar = 1]}
               \cup {[newNode EXCEPT !.opcode = op] : op \in {3, 4, 5, 6, 9, 31}}
IRs == UNION {[1..n -> IRNodes] : n \in 0..MaxNodes}

\* what the memory below exprStack may hold
BelowMems == {[i \in 1..(MaxNodes + 1) |-> v] : v \in {RZero, RInt(7)}}

ExprEnvs ==
    {Env(ProjTracer, HydSteady, HEAP_AMPLE, TRUE) @@ [formula |-> f, ir |-> <<>>, below |-> b]
        : f \in Formulas, b \in {CHOOSE m \in BelowMems : TRUE}}
    \cup {Env(ProjTracer, HydSteady, HEAP_AMPLE, TRUE) @@ [formula |-> <<>>, ir |-> ir, below |-> b]
        : ir \in IRs \ {<<>>}, b \in BelowMems}

ExprMem0 ==
    [phase |-> "none", expr |-> NoExpr, val |-> RZero, fault |-> FALSE,
     obs |-> [evalNaN |-> FALSE]]

\* the value of a formula text that has an expression
valueOf(formula) ==
    mathexpr_eval(ExprMem0, mathexpr_createIR(ExprProj, formula), ExprC, LINK).val

CreateFormula ==
    /\ MSX.phase = "none" /\ env.ir = <<>>
    /\ MSX' = [MSX EXCEPT !.phase = "created",
                          !.expr = mathexpr_createIR(ExprProj, env.formula)]
    /\ call' = [NoCall EXCEPT !.name = "mathexpr_create", !.n = 1]
    /\ UNCHANGED env

EvalFormula ==
    /\ MSX.phase = "created" /\ MSX.expr # NoExpr
    /\ LET r == mathexpr_eval(MSX, MSX.expr, ExprC, LINK)
       IN  /\ MSX' = [r.st EXCEPT !.phase = "evaluated", !.val = r.val]
           /\ call' = [NoCall EXCEPT !.name = "mathexpr_eval", !.n = 2, !.out = <<r.val>>]
    /\ UNCHANGED env

EvalIR ==
    /\ MSX.phase = "none" /\ env.ir # <<>>
    /\ LET r == mathexpr_eval(MSX, env.ir, ExprC, LINK)
       IN  /\ MSX' = [r.st EXCEPT !.phase = "evaluatedIR", !.expr = env.ir, !.val = r.val]
           /\ call' = [NoCall EXCEPT !.name = "mathexpr_eval", !.n = 1, !.out = <<r.val>>]
    /\ UNCHANGED env

InitExpr == env \in ExprEnvs /\ MSX = ExprMem0 /\ call = NoCall

NextExpr == CreateFormula \/ EvalFormula \/ EvalIR

SpecExpr == InitExpr /\ [][NextExpr]_vars

AllDigits(S) == S # <<>> /\ \A i \in DOMAIN S : isDigit(S[i])

\* the '-' at position i of the formula follows a complete operand and is
\* followed by a numeric literal that ends the formula
MinusLiteralAt(S, i) ==
    /\ S[i] = "-"
    /\ (S[i - 1] \in {")", "x"} \/ isDigit(S[i - 1]))
    /\ AllDigits(SubSeq(S, i + 1, Len(S)))
    /\ mathexpr_createIR(ExprProj, SubSeq(S, 1, i - 1)) # NoExpr

\* C36: a '-' after a complete operand (a ')', a number or a variable) is the
\* binary minus even before a digit: a formula L - d of a well-formed L and a
\* numeric literal d has an expression, and that evaluates to the difference
\* of the values of L and d
C36_BinaryMinusAccepted ==
    \A i \in 2..(Len(env.formula) - 1) :
        (MSX.phase \in {"created", "evaluated"} /\ MinusLiteralAt(env.formula, i))
            => /\ MSX.expr # NoExpr
               /\ MSX.phase = "evaluated"
                      => MSX.val = RSub(valueOf(SubSeq(env.formula, 1, i - 1)),
                                        getNumber(env.formula, i).val)

\* a two-operand operator of the list is reached with fewer than depth 2
\* operands on the stack, depth being the operands left by the nodes before pos
RECURSIVE ShortOfOperands(_, _, _)
ShortOfOperands(expr, pos, depth) ==
    IF pos > Len(expr) THEN FALSE
    ELSE IF expr[pos].opcode \in {3, 4, 5, 6, 31}
    THEN depth < 2 \/ ShortOfOperands(expr, pos + 1, depth - 1)
    ELSE IF expr[pos].opcode \in {7, 8} THEN ShortOfOperands(expr, pos + 1, depth + 1)
    ELSE ShortOfOperands(expr, pos + 1, depth)

\* C38: the evaluation of any list of nodes, one that reaches a two-operand
\* operator (+, -, *, /, ^) with fewer than two operands included, never reads
\* or writes outside exprStack, and such an underflow makes the result 0
C38_EvalStaysInStack ==
    MSX.phase = "evaluatedIR"
        => /\ ~ MSX.fault
           /\ ShortOfOperands(env.ir, 1, 0) => MSX.val = RZero

-----------------------------------------------------------------------------
(* rk5_integrate (rk5.c) as the chemistry engine opens it: the control of  *)
(* its steps.  What the solver's func makes of a step is seen only through *)
(* the error estimate err, which is an input here: "flat" stands for       *)
(* err = 0 (the step size grows tenfold), "tuned" for the estimate that    *)
(* keeps the step size (fac = 1), "rejectFirst" for a first step with      *)
(* err > 1 (and fac11/SAFE >= facc1) followed by tuned ones.               *)

\* rk5_open(NumSpecies, 1000, 1) of MSXchem_open
Itmax == 1000
Adjust == 1

\* d \div 10^k
RECURSIVE Div10(_, _)
Div10(d, k) == IF k = 0 THEN d ELSE Div10(d \div 10, k - 1)

\* x <= y * 10^-k for finite x, y >= 0
LeTiny(x, y, k) ==
    IF y = RZero THEN x = RZero
    ELSE RDiv(x, y)[1] <= Div10(RDiv(x, y)[2], k)

Rk5Tstep == RInt(300)

Rk5Envs ==
    [tnext : {Rk5Tstep},
     htry : {RZero, Rat(300, 999), Rat(300, 998), Rat(300, 1000), RInt(75)},
     errs : {"flat", "tuned", "rejectFirst"}]

Rk5Mem0 ==
    [pc |-> "called", t |-> RZero, h |-> RZero, htry |-> RZero, hmax |-> RZero,
     adjust |-> Adjust, nstep |-> 1, nfcn |-> 0, naccpt |-> 0, nrejct |-> 0,
     reject |-> 0, ret |-> 0]

\* the initial function evaluation and the initial step size (the
\* derivatives K1 being 0 where the step size is found from them)
rk5_begin ==
    /\ MSX.pc = "called"
    /\ MSX' = [MSX EXCEPT !.pc = "loop",
                          !.nfcn = 1,
                          !.htry = env.htry,
                          !.hmax = RSub(env.tnext, MSX.t),
                          !.adjust = IF env.htry = RZero THEN 1 ELSE MSX.adjust,
                          !.h = LET h == IF env.htry = RZero THEN RSub(env.tnext, MSX.t)
                                         ELSE env.htry
                                IN  IF LeTiny(h, RInt(1), 8) THEN Rat(1, 100000000) ELSE h]
    /\ call' = [NoCall EXCEPT !.name = "rk5_integrate", !.n = 1]
    /\ UNCHANGED env

\* the error estimate of the step that is being taken is above 1
Rejected(s) == s.adjust = 1 /\ env.errs = "rejectFirst" /\ s.nstep = 1

\* one pass of the while loop, t being before tnext: the test of the step
\* size, the step cut to the end of the interval, six function evaluations,
\* the step accepted or rejected, and the count of the steps
rk5_pass ==
    /\ MSX.pc = "loop" /\ RLt(MSX.t, env.tnext)
    /\ LET h == IF RLt(RZero, RSub(RAdd(MSX.t, RMul(Rat(101, 100), MSX.h)), env.tnext))
                THEN RSub(env.tnext, MSX.t) ELSE MSX.h
           fac == IF env.errs = "flat" THEN Rat(1, 10) ELSE RInt(1)
           hadj == IF MSX.adjust = 1 THEN RDiv(h, fac) ELSE h
           t1 == RAdd(MSX.t, h)
           hcap == IF RLt(MSX.hmax, RAbs(hadj)) THEN MSX.hmax ELSE hadj
           hacc == IF MSX.reject # 0 THEN RMin(RAbs(hcap), RAbs(h)) ELSE hcap
           hnew == IF Rejected(MSX)
                   THEN (IF MSX.adjust = 1 THEN RDiv(h, RInt(5)) ELSE hadj)
                   ELSE hacc
           stepped == [MSX EXCEPT
                          !.nfcn = @ + 6,
                          !.naccpt = IF Rejected(MSX) THEN @ ELSE @ + 1,
                          !.nrejct = IF Rejected(MSX) /\ MSX.naccpt >= 1 THEN @ + 1 ELSE @,
                          !.reject = IF Rejected(MSX) THEN 1 ELSE 0,
                          !.t = IF Rejected(MSX) THEN @ ELSE t1,
                          !.h = hnew,
                          !.htry = IF MSX.adjust = 1 THEN hnew ELSE @,
                          !.nstep = @ + 1]
       IN  /\ MSX' = IF LeTiny(RAbs(MSX.h), RMul(RInt(23), RAbs(MSX.t)), 16)
                     THEN [MSX EXCEPT !.pc = "returned", !.ret = -2]
                     ELSE IF stepped.nstep >= Itmax
                     THEN [stepped EXCEPT !.pc = "returned", !.ret = -1]
                     ELSE stepped
           /\ call' = [NoCall EXCEPT !.name = "rk5_integrate", !.n = stepped.nstep]
    /\ UNCHANGED env

\* the while loop ends at the end of the interval
rk5_done ==
    /\ MSX.pc = "loop" /\ ~ RLt(MSX.t, env.tnext)
    /\ MSX' = [MSX EXCEPT !.pc = "returned", !.ret = MSX.nfcn]
    /\ call' = [NoCall EXCEPT !.name = "rk5_integrate", !.n = MSX.nstep, !.ret = MSX.nfcn]
    /\ UNCHANGED env

InitRk5 == env \in Rk5Envs /\ MSX = Rk5Mem0 /\ call = NoCall

NextRk5 == rk5_begin \/ rk5_pass \/ rk5_done

SpecRk5 == InitRk5 /\ [][NextRk5]_vars

\* C37: rk5_integrate returns the positive number of function evaluations
\* whenever the end of the interval was reached within Itmax steps, and it
\* returns -1 only with the end of the interval not reached
C37_Rk5ReturnsCount ==
    MSX.pc = "returned"
        => /\ (~ RLt(MSX.t, env.tnext) /\ MSX.nstep - 1 <= Itmax)
                  => MSX.ret = MSX.nfcn /\ MSX.ret > 0
           /\ MSX.ret = -1 => RLt(MSX.t, env.tnext)

-----------------------------------------------------------------------------
(* The reversal of a segment list *)

Reversed(list) == [i \in 1..Len(list) |-> list[Len(list) + 1 - i]]

\* what MSXqual_reversesegs makes of the list of k in s: head and tail are
\* exchanged, the segments from FirstSeg along prev are the former ones in
\* reverse order, next leads back along prev, the segments hold what they
\* held, and a second reversal gives the former list
ReversesList(s, k) ==
    LET r == MSXqual_reversesegs(s, k)
        rr == MSXqual_reversesegs(r, k)
        L == SegList(s, k)
        R == SegList(r, k)
    IN  /\ r.FirstSeg[k] = s.LastSeg[k] /\ r.LastSeg[k] = s.FirstSeg[k]
        /\ R = Reversed(L)
        /\ R # <<>> => r.Seg[R[1]].next = NULL
        /\ \A i \in 1..(Len(R) - 1) : r.Seg[R[i]].prev = R[i + 1] /\ r.Seg[R[i + 1]].next = R[i]
        /\ \A seg \in DOMAIN s.Seg : r.Seg[seg].c = s.Seg[seg].c /\ r.Seg[seg].v = s.Seg[seg].v
        /\ r.FreeSeg = s.FreeSeg /\ r.nsegs = s.nsegs
        /\ rr.FirstSeg[k] = s.FirstSeg[k] /\ rr.LastSeg[k] = s.LastSeg[k]
        /\ SegList(rr, k) = L
        /\ \A seg \in DOMAIN s.Seg : rr.Seg[seg].c = s.Seg[seg].c /\ rr.Seg[seg].v = s.Seg[seg].v

\* C39: MSXqual_reversesegs reverses a list in place: head and tail are
\* exchanged, the traversal from FirstSeg along prev visits the former
\* segments in reverse order, next is the inverse of prev, no segment is
\* added or lost, the contents are unchanged, and two reversals restore the list
C39_ReversalInPlace ==
    \A k \in DOMAIN MSX.FirstSeg : ReversesList(MSX, k)

\* a LIFO tank, whose withdrawal reverses the list twice, holds segments of
\* different quality after a withdrawal
C39_ReversedTwoSegments ==
    /\ call.name = "MSXtank_mix4" /\ RLt(call.args[3], RZero)
    /\ Len(SegList(MSX, TankK)) >= 2
    /\ MSX.Seg[SegList(MSX, TankK)[1]].c # MSX.Seg[SegList(MSX, TankK)[2]].c

-----------------------------------------------------------------------------
(* The shape of a segment list *)

\* the segments of the free list, from FreeSeg along prev
FreeListSegs(s) ==
    LET list == SegsFrom(s, s.FreeSeg, Cardinality(DOMAIN s.Seg), <<>>)
    IN  {list[i] : i \in DOMAIN list}

\* the list of k is a well-formed, acyclic doubly linked list
WellFormedList(s, k) ==
    LET L == SegList(s, k)
    IN  /\ (s.FirstSeg[k] = NULL) <=> (s.LastSeg[k] = NULL)
        /\ L # <<>> =>
               /\ s.Seg[s.FirstSeg[k]].next = NULL
               /\ L[Len(L)] = s.LastSeg[k]
               /\ s.Seg[s.LastSeg[k]].prev = NULL
        /\ \A i \in 1..(Len(L) - 1) : s.Seg[s.Seg[L[i]].prev].next = L[i]
        /\ \A i, j \in DOMAIN L : L[i] = L[j] => i = j
        /\ \A i \in DOMAIN L :
               /\ s.Seg[L[i]].prev \notin FreeListSegs(s)
               /\ s.Seg[L[i]].next \notin FreeListSegs(s)

\* C40: after every operation on it the segment list of the tank is a
\* well-formed, acyclic doubly linked list: FirstSeg is null iff LastSeg is,
\* FirstSeg.next and LastSeg.prev are null, s.prev.next = s for every segment
\* but the tail, and no pointer of a listed segment leads to a free segment
C40_ListsWellFormed ==
    call.name \in {"MSXtank_mix1", "MSXtank_mix2", "MSXtank_mix3", "MSXtank_mix4"}
        => WellFormedList(MSX, TankK)

====
